---- MODULE Spec2Model ----
(***************************************************************************)
(* Verification model of the Philips Hue integration driver:               *)
(*   - HueApi.sendRequest / handleError   (src/src/lib/hue-api/api.ts)     *)
(*   - HueEventStream                     (lib/hue-api/event-stream.ts)    *)
(*   - PhilipsHue engine                  (lib/philips-hue.ts)             *)
(*   - Config registry                    (src/src/config.ts)              *)
(*   - PhilipsHueSetup                    (src/src/lib/setup.ts)           *)
(* SpecApi explores one sendRequest call against every sequence of hub     *)
(* responses; SpecEngine explores the engine, the event stream client and  *)
(* the registry under every interleaving of host events, hub events and    *)
(* timers; SpecSync explores syncLightState on update fragments with every *)
(* combination of fields; SpecSetup explores the setup flow: the host      *)
(* sends a message and waits for its answer, AbortDriverSetup alone may    *)
(* arrive while a handler is suspended, and the hubs answer as they like;  *)
(* SpecConv applies the unit converters and the attribute building of      *)
(* syncLightState to values a hub may report, inside and outside its       *)
(* native ranges.                                                          *)
(***************************************************************************)
EXTENDS Integers, Sequences, FiniteSets, TLC

VARIABLES
  \* ---- HueApi.sendRequest (one call) ----
  authKey,        \* axiosInstance.defaults.headers.common["hue-application-key"]
  rqPc,           \* "idle" | "loop" (top of the while loop) | "done"
  rqAuthRequired, \* parameter authRequired
  retries,        \* local `retries`
  statusCode,     \* local `statusCode`
  rqSent,         \* number of HTTP requests handed to axios
  rqDelays,       \* the delays awaited, in order (ms)
  rqResponses,    \* the hub's answers, in order
  rqResult,       \* what the call returned or threw
  rqCause,        \* the `cause` of the thrown HueError (the rejected axios request)
  hubUrl,         \* HueApi.hubUrl
  v2Bridge,       \* is_v2_bridge: where the call is, and what it returned
  \* ---- Config (registry) ----
  cfgHub,         \* config.hub (NoHub when undefined)
  cfgLights,      \* keys of config.lights
  \* ---- PhilipsHue engine ----
  capturedHub,    \* `hubConfig` captured by setupEventStreamEvents
  engApiBase,     \* hueApi base URL
  engApiKey,      \* hueApi "hue-application-key"
  available,      \* uc available entities
  configured,     \* uc configured (subscribed) entities
  attrState,      \* state attribute of each configured entity
  timers,         \* pending `await delay(2000)` of the disconnected handler, by cause
  refresh,        \* updateLights calls in flight: the lights still to fetch
  \* ---- HueEventStream ----
  es,             \* this.es: the current EventSource (status "null": none yet)
  orphans,        \* EventSources this.es no longer refers to, never closed
  connected,      \* this.connected
  \* ---- history of the last step ----
  hostWants,      \* the host's last request about the stream was to have it
  lastOp,         \* the handler that ran
  didConnect,     \* the handler called eventStream.connect
  pubUnknown,     \* per light: the publishes of state `unknown` it made
  signal,         \* the `disconnected` signal it handled and the entities it saw
  unknownPubs,    \* per light: publishes of `unknown` since its last other state
  overtaken,      \* causes of the reconnect delays an explicit disconnect found pending,
                  \* until the delay elapses or a handler connects for the host
  \* ---- configured entities with their full attribute sets ----
  entConfigured,  \* ids of the configured entities
  regFeatures,    \* Config: the `features` stored with each light of the registry
  entAttrs,       \* the attributes stored for each entity
  lastPub,        \* the updateEntityAttributes calls of the last handler
  handled,        \* the update fragment the last handler was given, if any
  \* ---- PhilipsHueSetup ----
  setupStep,      \* this.setupStep
  cfgAddDevice,   \* this.cfgAddDevice
  hubs,           \* this.hubs
  selectedHub,    \* this.selectedHub (NoSelection when null)
  browsing,       \* bonjour.find was called: its callback may run
  pending,        \* the handlers suspended at an await
  aborted,        \* AbortDriverSetup was handled and no DriverSetupRequest since
  setupOp,        \* the setup step that ran last
  setupAnswer,    \* the setup action the last step returned (NoAnswer: none)
  \* ---- unit converters ----
  convIn,         \* the value the hub reported
  convOut,        \* what the converters made of it so far
  \* ---- light commands ----
  cmdIn,          \* the arguments of handleLightCmd: command, params, entity state
  cmdRun          \* the call: where it is, the request it sent, the hub's answer,
                  \* the status code it returned

apiVars == <<authKey, rqPc, rqAuthRequired, retries, statusCode, rqSent,
             rqDelays, rqResponses, rqResult, rqCause, hubUrl, v2Bridge>>

engVars == <<cfgHub, cfgLights, capturedHub, engApiBase, engApiKey, available,
             configured, attrState, timers, refresh, es, orphans, connected,
             hostWants, lastOp, didConnect, pubUnknown, signal, unknownPubs,
             overtaken>>

syncVars == <<entConfigured, entAttrs, lastPub, handled, regFeatures>>

setupVars == <<setupStep, cfgAddDevice, hubs, selectedHub, browsing,
               pending, aborted, setupOp, setupAnswer>>

convVars == <<convIn, convOut>>

cmdVars == <<cmdIn, cmdRun>>

nonApiVars == <<engVars, syncVars, setupVars, convVars, cmdVars>>

nonEngVars == <<apiVars, syncVars, setupVars, convVars, cmdVars>>

nonSyncVars == <<apiVars, engVars, setupVars, convVars, cmdVars>>

\* the setup flow writes the registry, whose listeners are the engine's
nonSetupVars == <<apiVars, syncVars, convVars, cmdVars>>

nonConvVars == <<apiVars, engVars, syncVars, setupVars, cmdVars>>

nonCmdVars == <<apiVars, engVars, syncVars, setupVars, convVars>>

vars == <<apiVars, engVars, syncVars, setupVars, convVars, cmdVars>>

----------------------------------------------------------------------------
(* Program constants *)

MAX_RETRIES == 3

RETRY_STEP_MS == 250

(* Bounds of the model *)

NumLights == 2

MaxSources == 2

MaxTimers == 1

MaxRefresh == 1
\* candidates collected in this.hubs
MaxHubs == 2
\* setup handlers suspended at an await at the same time
MaxPending == 1

----------------------------------------------------------------------------
(* Values *)

Undefined == "<undefined>"

\* JavaScript falsiness of an optional string
Falsy(v) == v = Undefined \/ v = ""

\* StatusCodes of the integration API, as used by HueError.statusCode
StatusClasses == {"BadRequest", "Unauthorized", "NotFound", "Timeout",
                  "ServerError", "ServiceUnavailable"}

Msg(text, num) == [text |-> text, num |-> num]

NoResult == [kind |-> "none", status |-> "", message |-> Msg("", 0), data |-> ""]

Returned(d) == [kind |-> "ok", status |-> "", message |-> Msg("", 0), data |-> d]

\* new HueError(message, statusCode)
HueError(message, status) ==
  [kind |-> "error", status |-> status, message |-> message, data |-> ""]

\* one element of a body's `errors` array: a plain string or { description }
ErrStr(s) == [shape |-> "string", text |-> s, description |-> Undefined]

ErrObj(d) == [shape |-> "object", text |-> "", description |-> d]

FirstErrors == {ErrStr("s1"), ErrStr(""), ErrObj("e1"), ErrObj(""), ErrObj(Undefined)}

ErrorArrays ==
  {<<>>} \cup {<<e>> : e \in FirstErrors}
         \cup {<<e, ErrObj("e2")>> : e \in FirstErrors}

DataValues == {"d1", "d2"}

\* what axios gives back for one request
Resp(t, status, data, errors, code) ==
  [t |-> t, status |-> status, data |-> data, errors |-> errors, code |-> code]

\* a 2xx response (axios resolves)
Responses2xx == {Resp("2xx", 200, d, errs, "") : d \in DataValues, errs \in ErrorArrays}

\* a response with a non-2xx status (axios rejects, error.response is set)
ErrorStatuses == {400, 401, 403, 404, 429, 500, 503}

ResponsesStatus ==
  {Resp("status", s, "", errs, "") : s \in ErrorStatuses, errs \in {<<>>, <<ErrObj("e1")>>}}

\* no response (axios rejects, error.request is set, error.code tells why)
NetCodes == {"ECONNABORTED", "ETIMEDOUT", "ECONNREFUSED", "EHOSTUNREACH"}

ResponsesNone == {Resp("noresponse", 0, "", <<>>, c) : c \in NetCodes}

\* any other thrown error (no response, no request)
ResponsesOther == {Resp("other", 0, "", <<>>, "")}

HubResponses == Responses2xx \cup ResponsesStatus \cup ResponsesNone \cup ResponsesOther

\* a HueError constructed without a cause
NoCause == Resp("none", 0, "", <<>>, "")

----------------------------------------------------------------------------
(* HueApi *)

\* message extracted from a body's first embedded error
EmbeddedMessage(firstError, fallback) ==
  IF firstError.shape = "string" THEN firstError.text
  ELSE IF Falsy(firstError.description) THEN fallback
  ELSE firstError.description

\* mutant: the switch lacks `case 403`
StatusToClass_no403(status) ==
  CASE status = 400 -> "BadRequest"
    [] status = 401 -> "Unauthorized"
    [] status = 404 -> "NotFound"
    [] OTHER -> "ServerError"

\* handleError: the switch over error.response.status
StatusToClass(status) ==
  CASE status = 400 -> "BadRequest"
    [] status = 401 -> "Unauthorized"
    [] status = 403 -> "Unauthorized"
    [] status = 404 -> "NotFound"
    [] OTHER -> "ServerError"

\* handleError: the default message of each case of the switch
DefaultMessage(status) ==
  CASE status = 400 -> Msg("Bad request", 0)
    [] status \in {401, 403} -> Msg("Unauthorized", 0)
    [] status = 404 -> Msg("Not found", 0)
    [] OTHER -> Msg("API error", status)

\* HueApi.handleError: the HueError thrown for a rejected request
handleError(error) ==
  IF error.t = "status" THEN
    LET message == IF Len(error.errors) > 0
                   THEN EmbeddedMessage(error.errors[1], "")
                   ELSE ""
    IN HueError(IF message = "" THEN DefaultMessage(error.status) ELSE Msg(message, 0),
                StatusToClass(error.status))
  ELSE IF error.t = "noresponse" THEN
    IF error.code \in {"ECONNABORTED", "ETIMEDOUT"}
    THEN HueError(Msg("Request timeout", 0), "Timeout")
    ELSE HueError(Msg("Service unavailable", 0), "ServiceUnavailable")
  ELSE HueError(Msg("Unknown error", 0), "ServerError")

\* mutant: the guard tests only for an absent header, not for an empty key
AuthMissing_undefinedOnly(authRequired, key) == authRequired /\ key = Undefined

\* sendRequest: the authentication guard
AuthMissing(authRequired, key) == authRequired /\ Falsy(key)

\* mutant: a constant delay instead of a linearly increasing one
RetryWaitMs_constant(r) == RETRY_STEP_MS

\* sendRequest: the delay before attempt number r (r > 1)
RetryWaitMs(r) == RETRY_STEP_MS * (r - 1)

\* mutant: every 5xx status is retried
ShouldRetry_any5xx(status, r) == (status = 429 \/ status >= 500) /\ r < MAX_RETRIES

\* sendRequest: the catch block's retry condition
ShouldRetry(status, r) == (status = 429 \/ status = 503) /\ r < MAX_RETRIES

\* sendRequest: the 2xx body check for embedded V2 API errors
HasEmbeddedErrors(resp) == Len(resp.errors) > 0

\* mutant: the message is taken from the last embedded error
EmbeddedError_last(resp) ==
  HueError(Msg(EmbeddedMessage(resp.errors[Len(resp.errors)], "Unknown API error"), 0),
           "ServerError")

\* sendRequest: the error thrown for a 2xx body with embedded errors
EmbeddedError(resp) ==
  HueError(Msg(EmbeddedMessage(resp.errors[1], "Unknown API error"), 0), "ServerError")

\* sendRequest: the throw after the while loop
GiveUpError(r) ==
  HueError(Msg("requests to the bridge failed, it is probably overloaded. Giving up.", r),
           "ServiceUnavailable")

\* mutant: every Unauthorized rejection counts, 401 included
isV2Rejection_anyUnauthorized(result, cause) ==
  result.kind = "error" /\ result.status = "Unauthorized"

\* is_v2_bridge: the answer once sendRequest has returned or thrown
isV2Rejection(result, cause) ==
  /\ result.kind = "error"
  /\ result.status = "Unauthorized"
  /\ cause.t = "status"
  /\ cause.status = 403

\* sendRequest is called: the guard, then the loop is entered
SendRequest(authRequired) ==
  /\ rqPc = "idle"
  /\ rqAuthRequired' = authRequired
  /\ IF AuthMissing(authRequired, authKey)
     THEN /\ rqPc' = "done"
          /\ rqResult' = HueError(Msg("auth key is required in protected resource", 0),
                                  "Unauthorized")
     ELSE /\ rqPc' = "loop"
          /\ rqResult' = rqResult
  /\ rqCause' = NoCause
  /\ retries' = 0
  /\ statusCode' = 0
  /\ UNCHANGED <<authKey, rqSent, rqDelays, rqResponses, hubUrl>>

\* one iteration of the while loop: the delay, the request, the hub's answer `resp`
Attempt(resp) ==
  /\ rqPc = "loop"
  /\ retries < MAX_RETRIES
  /\ LET r == retries + 1 IN
     /\ retries' = r
     /\ rqDelays' = IF r > 1 THEN Append(rqDelays, RetryWaitMs(r)) ELSE rqDelays
     /\ rqSent' = rqSent + 1
     /\ rqResponses' = Append(rqResponses, resp)
     /\ IF resp.t = "2xx" THEN
          /\ statusCode' = statusCode
          /\ rqPc' = "done"
          /\ rqResult' = IF HasEmbeddedErrors(resp) THEN EmbeddedError(resp)
                         ELSE Returned(resp.data)
          /\ rqCause' = NoCause
        ELSE
          /\ statusCode' = IF resp.t = "status" THEN resp.status ELSE statusCode
          /\ IF resp.t = "status" /\ ShouldRetry(resp.status, r)
             THEN \* continue: back to the loop condition
                  IF r < MAX_RETRIES
                  THEN /\ rqPc' = "loop"
                       /\ rqResult' = rqResult
                       /\ rqCause' = rqCause
                  ELSE /\ rqPc' = "done"
                       /\ rqResult' = GiveUpError(r)
                       /\ rqCause' = NoCause
             ELSE /\ rqPc' = "done"
                  /\ rqResult' = handleError(resp)
                  /\ rqCause' = resp
  /\ v2Bridge' = IF v2Bridge.pc = "probing" /\ rqPc' = "done"
                 THEN [pc |-> "returned", answer |-> isV2Rejection(rqResult', rqCause')]
                 ELSE v2Bridge
  /\ UNCHANGED <<authKey, rqAuthRequired, hubUrl>>

\* is_v2_bridge is called: no request without a base address, else the probe
is_v2_bridge ==
  /\ v2Bridge.pc = "none"
  /\ IF Falsy(hubUrl)
     THEN /\ rqPc = "idle"
          /\ v2Bridge' = [pc |-> "returned", answer |-> FALSE]
          /\ UNCHANGED <<authKey, rqPc, rqAuthRequired, retries, statusCode, rqSent,
                         rqDelays, rqResponses, rqResult, rqCause, hubUrl>>
     ELSE /\ SendRequest(FALSE)
          /\ v2Bridge' = [pc |-> "probing", answer |-> FALSE]

----------------------------------------------------------------------------
(* Registry, entities and event stream: values *)

Lights == 1..NumLights

NoHub == [name |-> "", ip |-> "", username |-> "", bridgeId |-> ""]

HubA == [name |-> "Bridge", ip |-> "10.0.0.5", username |-> "abc", bridgeId |-> "001788aaaaaa"]

HubB == [name |-> "Bridge2", ip |-> "10.0.0.6", username |-> "xyz", bridgeId |-> "001788bbbbbb"]

\* the hubs setup can pair with
PairableHubs == {HubA, HubB}

\* `hubConfig && hubConfig.ip`
HasHub(h) == h.ip # ""

\* getHubUrl
getHubUrl(ip) == [scheme |-> "https", host |-> ip]

NoUrl == [scheme |-> "", host |-> ""]

\* LightStates of the integration API; NoState: the attribute is not set
NoState == "none"

Unknown == "UNKNOWN"

Unavailable == "UNAVAILABLE"

\* this.es = null
NoSource == [status |-> "null", url |-> NoUrl, key |-> ""]

NoOrphans == [connecting |-> 0, open |-> 0]

\* update fragments the hub pushes: id, type and an optional `on` field
Fragments ==
  [id : Lights, type : {"light", "grouped_light"}, on : {"absent", "true", "false"}]

\* the sequence of the members of S, in ascending order (getEntities)
Ascending(S) == SelectSeq([i \in 1..NumLights |-> i], LAMBDA l : l \in S)

----------------------------------------------------------------------------
(* HueEventStream *)

Stream == [es |-> es, orphans |-> orphans, connected |-> connected]

IsLive(status) == status \in {"connecting", "open"}

\* the EventSources that are open or still connecting
NumLive(s) ==
  (IF IsLive(s.es.status) THEN 1 ELSE 0) + s.orphans.connecting + s.orphans.open

\* connect() without its guard
Creates_always(s) == TRUE

\* connect() goes past its `if (this.connected) return`
Creates(s) == ~s.connected

\* HueEventStream.connect: a new EventSource is assigned to this.es; the
\* previous one is not closed
connect(s, url, key) ==
  IF ~Creates(s) THEN s
  ELSE [s EXCEPT !.es = [status |-> "connecting", url |-> url, key |-> key],
                 !.orphans = IF IsLive(s.es.status)
                             THEN [@ EXCEPT ![s.es.status] = @ + 1]
                             ELSE @]

\* HueEventStream.disconnect: the stream state afterwards
disconnect(s) ==
  IF s.es.status # "null"
  THEN [s EXCEPT !.es.status = "closed", !.connected = FALSE]
  ELSE s

\* HueEventStream.disconnect: whether `disconnected` is emitted
disconnectEmits(s) == s.es.status # "null"

\* room for one more live EventSource within the model's bound
Room(s) == ~Creates(s) \/ NumLive(s) < MaxSources

----------------------------------------------------------------------------
(* Unit converters.  Numbers the code computes in floating point are computed
   here exactly, in integers: x and y are given in hundredths. *)

\* a field or attribute that is not there, and one that is there
Absent == <<>>

Present(v) == <<v>>

Max2(a, b) == IF a >= b THEN a ELSE b

Min2(a, b) == IF a <= b THEN a ELSE b

\* a number, or the NaN the arithmetic produced
Num(n) == [nan |-> FALSE, n |-> n]

NaN == [nan |-> TRUE, n |-> 0]

\* Math.round(n / d) for d > 0: halves round up
RoundDiv(n, d) == (2 * n + d) \div (2 * d)

\* brightnessToPercent without its floor
brightnessToPercent_noFloor(brightness) == RoundDiv(100 * brightness, 255)

\* brightnessToPercent: Math.max(1, Math.round((brightness / 255) * 100))
brightnessToPercent(brightness) == Max2(1, RoundDiv(100 * brightness, 255))

\* percentToBrightness: Math.max(1, Math.round((percent / 100) * 255))
percentToBrightness(percent) == Max2(1, RoundDiv(255 * percent, 100))

\* mirekToColorTemp with its result rounded to whole percent
mirekToColorTemp_rounded(mirek) == [num |-> RoundDiv((mirek - 153) * 100, 347), den |-> 1]

\* mirekToColorTemp: ((mirek - 153) / 347) * 100, not rounded: kept as a fraction
mirekToColorTemp(mirek) == [num |-> (mirek - 153) * 100, den |-> 347]

\* colorTempToMirek: Math.round((colorTemp / 100) * 347 + 153), for the
\* fraction colorTemp = num / den
colorTempToMirek(colorTemp) ==
  RoundDiv(colorTemp.num * 347 + 153 * 100 * colorTemp.den, 100 * colorTemp.den)

\* convertXYtoHSV(x, y, lightness): lightness is Absent (default 1) or Present(n).
\* R, G and B are scaled by the positive factor 10^6 * y / lightness, which
\* changes neither S nor H; with y = 0 or lightness = 0 the divisions give NaN.
convertXYtoHSV(x, y, lightness) ==
  LET L == IF lightness = Absent THEN 1 ELSE lightness[1]
      w == 100 - x - y
      R == 32406 * x - 15372 * y - 4986 * w
      G == 18758 * y - 9689 * x + 415 * w
      B == 557 * x - 2040 * y + 10570 * w
      V == Max2(R, Max2(G, B))
      minRGB == Min2(R, Min2(G, B))
      d == V - minRGB
      ScaledS == IF V < 0 THEN 0
                 ELSE IF minRGB <= 0 THEN 255
                 ELSE Min2(RoundDiv(255 * d, V), 255)
      H == IF V = minRGB THEN 0
           ELSE IF V = R /\ G >= B THEN RoundDiv(60 * (G - B), d)
           ELSE IF V = R THEN RoundDiv(60 * (G - B), d) + 360
           ELSE IF V = G THEN RoundDiv(60 * (B - R), d) + 120
           ELSE RoundDiv(60 * (R - G), d) + 240
  IN IF y = 0 \/ L = 0 THEN [hue |-> Num(0), sat |-> NaN]
     ELSE IF V = minRGB THEN [hue |-> Num(0), sat |-> IF V = 0 THEN NaN ELSE Num(0)]
     ELSE [hue |-> Num(H % 360), sat |-> Num(Max2(0, ScaledS))]

\* String.toLowerCase on one character; texts are sequences of characters
LowerChar(c) ==
  CASE c = "A" -> "a" [] c = "B" -> "b" [] c = "C" -> "c"
    [] c = "D" -> "d" [] c = "E" -> "e" [] c = "F" -> "f"
    [] OTHER -> c

toLowerCase(text) == [i \in 1..Len(text) |-> LowerChar(text[i])]

\* (id.match(/:/g) || []).length
CountColons(id) == Cardinality({i \in 1..Len(id) : id[i] = ":"})

\* id.substring(from, to), with JavaScript's positions counted from 0
substring(id, from, to) == SubSeq(id, from + 1, to)

\* normalizeBridgeId comparing the id as it was given
normalizeBridgeId_caseSensitive(bridgeId) ==
  IF Len(bridgeId) = 17 /\ CountColons(bridgeId) = 5
  THEN SelectSeq(bridgeId, LAMBDA c : c # ":")
  ELSE IF Len(bridgeId) = 16 /\ substring(bridgeId, 6, 10) = <<"f", "f", "f", "e">>
  THEN substring(bridgeId, 0, 6) \o substring(bridgeId, 10, Len(bridgeId))
  ELSE bridgeId

\* normalizeBridgeId
normalizeBridgeId(bridgeId) ==
  LET id == toLowerCase(bridgeId) IN
  IF Len(id) = 17 /\ CountColons(id) = 5
  THEN SelectSeq(id, LAMBDA c : c # ":")
  ELSE IF Len(id) = 16 /\ substring(id, 6, 10) = <<"f", "f", "f", "e">>
  THEN substring(id, 0, 6) \o substring(id, 10, Len(id))
  ELSE id

----------------------------------------------------------------------------
(* PhilipsHue.syncLightState: the attribute set built from a light resource *)

AttributeNames == {"state", "brightness", "color_temperature", "hue", "saturation"}

\* `light.color && light.color.xy`
HasXY(light) == light.color # Absent /\ light.color[1].xy # Absent

\* `light.color_temperature && light.color_temperature.mirek_valid` without
\* the validity test
HasColorTemp_ignoreValid(light) == light.color_temperature # Absent

\* `light.color_temperature && light.color_temperature.mirek_valid`
HasColorTemp(light) ==
  light.color_temperature # Absent /\ light.color_temperature[1].mirek_valid

\* light.dimming?.brightness
DimmingBrightness(light) ==
  IF light.dimming = Absent THEN Absent ELSE Present(light.dimming[1].brightness)

\* the local `lightState` of syncLightState once all fields were looked at
lightState(light) ==
  [state |-> IF light.on = "absent" THEN Absent
             ELSE Present(IF light.on = "true" THEN "ON" ELSE "OFF"),
   brightness |-> IF light.dimming = Absent THEN Absent
                  ELSE Present(percentToBrightness(light.dimming[1].brightness)),
   color_temperature |-> IF HasColorTemp(light)
                         THEN Present(mirekToColorTemp(light.color_temperature[1].mirek))
                         ELSE Absent,
   hue |-> IF HasXY(light)
           THEN Present(convertXYtoHSV(light.color[1].xy[1].x, light.color[1].xy[1].y,
                                       DimmingBrightness(light)).hue)
           ELSE Absent,
   saturation |-> IF HasXY(light)
                  THEN Present(convertXYtoHSV(light.color[1].xy[1].x, light.color[1].xy[1].y,
                                              DimmingBrightness(light)).sat)
                  ELSE Absent]

\* getLightFeatures: the capability set derived from a light resource
getLightFeatures(light) ==
  {"on_off", "toggle"}
    \cup (IF light.dimming # Absent THEN {"dim"} ELSE {})
    \cup (IF light.color_temperature # Absent /\ light.color_temperature[1].mirek_schema
          THEN {"color_temperature"} ELSE {})
    \cup (IF HasXY(light) THEN {"color"} ELSE {})

----------------------------------------------------------------------------
(* PhilipsHue: entity state *)

\* updateEntityStates without its test: every configured entity is updated
NeedsUpdate_always(current, state) == TRUE

\* updateEntityStates: the test that prevents repeated entity updates
NeedsUpdate(current, state) == current # state

\* updateEntityStates: the attributes afterwards
updateEntityStates(attr, conf, state) ==
  [l \in Lights |-> IF l \in conf /\ NeedsUpdate(attr[l], state) THEN state ELSE attr[l]]

\* updateEntityStates: its updateEntityAttributes calls
updateEntityStatesPubs(attr, conf, state) ==
  LET ids == SelectSeq(Ascending(conf), LAMBDA l : NeedsUpdate(attr[l], state))
  IN [i \in 1..Len(ids) |-> <<ids[i], state>>]

\* syncLightState: whether the fragment reaches updateEntityAttributes
SyncApplies(conf, l, frag) == frag.type = "light" /\ l \in conf

\* syncLightState: the state attribute derived from the `on` field
SyncState(frag) ==
  LET st == lightState([on |-> frag.on, dimming |-> Absent,
                        color_temperature |-> Absent, color |-> Absent]).state
  IN IF st = Absent THEN NoState ELSE st[1]

\* syncLightState ignoring the entity id: every configured light takes the state
syncLightState_allLights(attr, conf, l, frag) ==
  IF SyncApplies(conf, l, frag) /\ SyncState(frag) # NoState
  THEN [m \in Lights |-> IF m \in conf THEN SyncState(frag) ELSE attr[m]]
  ELSE attr

\* syncLightState: the attributes afterwards
syncLightState(attr, conf, l, frag) ==
  IF SyncApplies(conf, l, frag) /\ SyncState(frag) # NoState
  THEN [attr EXCEPT ![l] = SyncState(frag)]
  ELSE attr

\* syncLightState: its updateEntityAttributes call
syncLightStatePubs(conf, l, frag) ==
  IF SyncApplies(conf, l, frag) THEN << <<l, SyncState(frag)>> >> ELSE <<>>

\* the `disconnected` handler up to its `await delay(2000)`
NoSignal == [fired |-> FALSE, conf |-> {}]

Signal(attr, conf) == [fired |-> TRUE, conf |-> conf]

TimerCount == timers.error + timers.disconnect

AddTimer(t, cause) == [t EXCEPT ![cause] = @ + 1]

\* updateLights is called by handler `by`: the configured entities are snapshot
StartRefresh(r, conf, by) ==
  IF conf = {} THEN r ELSE Append(r, [by |-> by, lights |-> Ascending(conf)])

RefreshRoom(conf) == conf = {} \/ Len(refresh) < MaxRefresh

\* history: the number of publishes of `state` for light l among pubs
RECURSIVE CountPubs(_, _, _)
CountPubs(pubs, l, state) ==
  IF pubs = <<>> THEN 0
  ELSE (IF Head(pubs) = <<l, state>> THEN 1 ELSE 0) + CountPubs(Tail(pubs), l, state)

\* history: number of `unknown` publishes of a light since its last other state
RECURSIVE CountUnknown(_, _, _)
CountUnknown(c, pubs, l) ==
  IF pubs = <<>> THEN c
  ELSE LET p == Head(pubs)
           c1 == IF p[1] # l \/ p[2] = NoState THEN c
                 ELSE IF p[2] = Unknown THEN (IF c < 2 THEN c + 1 ELSE c)
                 ELSE 0
       IN CountUnknown(c1, Tail(pubs), l)

\* the process ended by an exception that nothing caught
Terminated == lastOp = "uncaughtException"

\* the history variables of a step; a process that ended runs no handler
History(op, dc, pubs, sig, newConf) ==
  /\ ~Terminated
  /\ lastOp' = op
  /\ didConnect' = dc
  /\ pubUnknown' = [l \in Lights |-> CountPubs(pubs, l, Unknown)]
  /\ signal' = sig
  /\ unknownPubs' = [l \in Lights |->
                       IF l \in newConf /\ l \in configured
                       THEN CountUnknown(unknownPubs[l], pubs, l)
                       ELSE 0]
  /\ overtaken' = IF op = "disconnect"
                  THEN overtaken \cup {c \in {"error", "disconnect"} : timers[c] > 0}
                  ELSE IF op = "ReconnectAfterError" THEN overtaken \ {"error"}
                  ELSE IF op = "ReconnectAfterDisconnect" THEN overtaken \ {"disconnect"}
                  ELSE IF dc THEN {}
                  ELSE overtaken

SetStream(s) ==
  /\ es' = s.es
  /\ orphans' = s.orphans
  /\ connected' = s.connected

\* attributes are kept for configured entities only
Restrict(attr, conf) == [l \in Lights |-> IF l \in conf THEN attr[l] ELSE NoState]

----------------------------------------------------------------------------
(* PhilipsHue: host events *)

\* Events.SubscribeEntities: the entities become configured, then
\* handleSubscribeEntities connects with the hub stored in the registry
handleSubscribeEntities(S) ==
  /\ S # {} /\ S \subseteq available
  /\ HasHub(cfgHub) => Room(Stream)
  /\ configured' = configured \cup S
  /\ SetStream(IF HasHub(cfgHub)
               THEN connect(Stream, getHubUrl(cfgHub.ip), cfgHub.username)
               ELSE Stream)
  /\ hostWants' = TRUE
  /\ History("other", HasHub(cfgHub), <<>>, NoSignal, configured \cup S)
  /\ UNCHANGED <<cfgHub, cfgLights, capturedHub, engApiBase, engApiKey, available,
                 attrState, timers, refresh>>

\* a handler that only calls eventStream.disconnect(); the `disconnected`
\* listener runs inside the emit: updateEntityStates(Unknown), then the delay
DisconnectBy(op, conf) ==
  /\ disconnectEmits(Stream) => timers.disconnect < MaxTimers
  /\ SetStream(disconnect(Stream))
  /\ configured' = conf
  /\ LET attr0 == Restrict(attrState, conf) IN
     IF disconnectEmits(Stream)
     THEN /\ attrState' = updateEntityStates(attr0, conf, Unknown)
          /\ timers' = AddTimer(timers, "disconnect")
          /\ History(op, FALSE, updateEntityStatesPubs(attr0, conf, Unknown),
                     Signal(attr0, conf), conf)
     ELSE /\ attrState' = attr0
          /\ timers' = timers
          /\ History(op, FALSE, <<>>, NoSignal, conf)
  /\ hostWants' = FALSE
  /\ UNCHANGED <<cfgHub, cfgLights, capturedHub, engApiBase, engApiKey, available, refresh>>

\* Events.UnsubscribeEntities: the entities leave the configured set, then
\* handleUnsubscribeEntities disconnects
handleUnsubscribeEntities(S) ==
  /\ S # {} /\ S \subseteq configured
  /\ DisconnectBy("disconnect", configured \ S)

\* Events.Disconnect
handleDisconnect == DisconnectBy("disconnect", configured)

\* Events.EnterStandby
handleEnterStandby == DisconnectBy("disconnect", configured)

\* Events.ExitStandby
handleExitStandby ==
  /\ HasHub(cfgHub) => Room(Stream)
  /\ SetStream(IF HasHub(cfgHub)
               THEN connect(Stream, getHubUrl(cfgHub.ip), cfgHub.username)
               ELSE Stream)
  /\ hostWants' = TRUE
  /\ History("other", HasHub(cfgHub), <<>>, NoSignal, configured)
  /\ UNCHANGED <<cfgHub, cfgLights, capturedHub, engApiBase, engApiKey, available,
                 configured, attrState, timers, refresh>>

\* Events.Connect: updateLights is started
handleConnect ==
  /\ RefreshRoom(configured)
  /\ refresh' = StartRefresh(refresh, configured, "handleConnect")
  /\ History("other", FALSE, <<>>, NoSignal, configured)
  /\ UNCHANGED <<cfgHub, cfgLights, capturedHub, engApiBase, engApiKey, available,
                 configured, attrState, timers, es, orphans, connected, hostWants>>

\* the `disconnected` handler after its delay: connects with the captured hub
ReconnectTimer(cause) ==
  /\ timers[cause] > 0
  /\ HasHub(capturedHub) => Room(Stream)
  /\ timers' = [timers EXCEPT ![cause] = @ - 1]
  /\ SetStream(IF HasHub(capturedHub)
               THEN connect(Stream, getHubUrl(capturedHub.ip), capturedHub.username)
               ELSE Stream)
  /\ History(IF cause = "error" THEN "ReconnectAfterError" ELSE "ReconnectAfterDisconnect",
             HasHub(capturedHub), <<>>, NoSignal, configured)
  /\ UNCHANGED <<cfgHub, cfgLights, capturedHub, engApiBase, engApiKey, available,
                 configured, attrState, refresh, hostWants>>

----------------------------------------------------------------------------
(* EventSource callbacks *)

\* the EventSource `target` ("es": this.es, "orphan": an earlier one) has `status`
HasSource(target, status) ==
  IF target = "es" THEN es.status = status ELSE orphans[status] > 0

\* the EventSource `target` goes from status `from` to status `to`
MoveSource(target, from, to) ==
  IF target = "es"
  THEN /\ es' = [es EXCEPT !.status = to]
       /\ orphans' = orphans
  ELSE /\ es' = es
       /\ orphans' = IF to = from THEN orphans
                      ELSE IF to = "closed" THEN [orphans EXCEPT ![from] = @ - 1]
                      ELSE [orphans EXCEPT ![from] = @ - 1, ![to] = @ + 1]

\* es.onopen of an EventSource; the `connected` listener starts updateLights
EsOpen(target) ==
  /\ HasSource(target, "connecting")
  /\ RefreshRoom(configured)
  /\ MoveSource(target, "connecting", "open")
  /\ connected' = TRUE
  /\ refresh' = StartRefresh(refresh, configured, "connected")
  /\ History("other", FALSE, <<>>, NoSignal, configured)
  /\ UNCHANGED <<cfgHub, cfgLights, capturedHub, engApiBase, engApiKey, available,
                 configured, attrState, timers, hostWants>>

\* es.onerror of an EventSource: the EventSource either gives up (closed) or
\* keeps retrying by itself (connecting); the `disconnected` listener runs
EsError(target, status, fatal) ==
  /\ HasSource(target, status)
  /\ timers.error < MaxTimers
  /\ MoveSource(target, status, IF fatal THEN "closed" ELSE "connecting")
  /\ connected' = FALSE
  /\ attrState' = updateEntityStates(attrState, configured, Unknown)
  /\ timers' = AddTimer(timers, "error")
  /\ History("other", FALSE, updateEntityStatesPubs(attrState, configured, Unknown),
             Signal(attrState, configured), configured)
  /\ UNCHANGED <<cfgHub, cfgLights, capturedHub, engApiBase, engApiKey, available,
                 configured, refresh, hostWants>>

\* es.onmessage of an open EventSource with one well-formed `update` fragment:
\* handleEventStreamUpdate -> syncLightState
EsUpdate(frag) ==
  /\ HasSource("es", "open") \/ HasSource("orphan", "open")
  /\ frag.type \in {"light", "grouped_light"}
  /\ attrState' = syncLightState(attrState, configured, frag.id, frag)
  /\ History("other", FALSE, syncLightStatePubs(configured, frag.id, frag),
             NoSignal, configured)
  /\ UNCHANGED <<cfgHub, cfgLights, capturedHub, engApiBase, engApiKey, available,
                 configured, timers, refresh, es, orphans, connected, hostWants>>

\* EventEmitter.emit("error", err): a listener for `error` gets the error,
\* without one emit throws the error
emitError(listeners) == IF listeners = 0 THEN "thrown" ELSE "delivered"

\* the listeners setupEventStreamEvents and HueEventStream register for `error`
ErrorListeners == 0

\* es.onmessage of an open EventSource with a body JSON.parse rejects: the
\* catch block emits `error`. What emit throws leaves onmessage uncaught:
\* the process ends unless its embedding handles uncaught exceptions, which
\* then is all that happens. The registry is on disk and outlives the process.
EsMalformed(target, caught) ==
  /\ ~Terminated
  /\ HasSource(target, "open")
  /\ IF emitError(ErrorListeners) = "delivered" \/ caught
     THEN /\ History("other", FALSE, <<>>, NoSignal, configured)
          /\ UNCHANGED <<capturedHub, engApiBase, engApiKey, available, configured,
                         attrState, timers, refresh, es, orphans, connected, hostWants>>
     ELSE /\ lastOp' = "uncaughtException"
          /\ capturedHub' = NoHub
          /\ engApiBase' = NoUrl
          /\ engApiKey' = Undefined
          /\ available' = {}
          /\ configured' = {}
          /\ attrState' = [l \in Lights |-> NoState]
          /\ timers' = [error |-> 0, disconnect |-> 0]
          /\ refresh' = <<>>
          /\ es' = NoSource
          /\ orphans' = NoOrphans
          /\ connected' = FALSE
          /\ hostWants' = FALSE
          /\ didConnect' = FALSE
          /\ pubUnknown' = [l \in Lights |-> 0]
          /\ signal' = NoSignal
          /\ unknownPubs' = [l \in Lights |-> 0]
          /\ overtaken' = {}
  /\ UNCHANGED <<cfgHub, cfgLights>>

\* updateLights giving up at the first failed fetch
NextLights_abortOnFail(lights, outcome) ==
  IF outcome = "fail" THEN <<>> ELSE Tail(lights)

\* updateLights: the entities left after one iteration; the catch block does
\* not leave the loop
NextLights(lights, outcome) == Tail(lights)

\* one iteration of the updateLights loop: getLight answers or throws
UpdateLightsStep(k, outcome) ==
  /\ k \in 1..Len(refresh)
  /\ Falsy(engApiKey) => outcome = "fail"
  /\ LET l == Head(refresh[k].lights)
         rest == NextLights(refresh[k].lights, outcome)
         frag == [id |-> l, type |-> "light", on |-> outcome]
     IN
     /\ refresh' = IF rest = <<>>
                   THEN SubSeq(refresh, 1, k - 1) \o SubSeq(refresh, k + 1, Len(refresh))
                   ELSE [refresh EXCEPT ![k].lights = rest]
     /\ IF outcome = "fail"
        THEN /\ cfgLights' = cfgLights
             /\ attrState' = IF l \in configured
                             THEN [attrState EXCEPT ![l] = Unavailable]
                             ELSE attrState
             /\ History("other", FALSE,
                        IF l \in configured THEN << <<l, Unavailable>> >> ELSE <<>>,
                        NoSignal, configured)
        ELSE /\ cfgLights' = cfgLights \cup {l}
             /\ attrState' = syncLightState(attrState, configured, l, frag)
             /\ History("other", FALSE, syncLightStatePubs(configured, l, frag),
                        NoSignal, configured)
  /\ UNCHANGED <<cfgHub, capturedHub, engApiBase, engApiKey, available, configured,
                 timers, es, orphans, connected, hostWants>>

----------------------------------------------------------------------------
(* Config operations, with the engine's listeners that run inside the emit *)

\* Config.updateHubConfig: the stored hub afterwards
updateHubConfig(old, hub) ==
  IF ~HasHub(old) /\ old.bridgeId = ""
  THEN (IF hub.name # "" /\ hub.ip # "" /\ hub.username # "" /\ hub.bridgeId # ""
        THEN hub ELSE old)
  ELSE hub

\* Config.updateHubConfig(hub), emit("change") -> PhilipsHue.onCfgChange
ConfigUpdateHub(hub) ==
  /\ Room(disconnect(Stream))
  /\ disconnectEmits(Stream) => timers.disconnect < MaxTimers
  /\ cfgHub' = updateHubConfig(cfgHub, hub)
  /\ LET s1 == disconnect(Stream)
         hubCfg == updateHubConfig(cfgHub, hub)
     IN
     /\ engApiBase' = getHubUrl(hubCfg.ip)
     /\ engApiKey' = hubCfg.username
     /\ SetStream(connect(s1, getHubUrl(hubCfg.ip), hubCfg.username))
     /\ IF disconnectEmits(Stream)
        THEN /\ attrState' = updateEntityStates(attrState, configured, Unknown)
             /\ timers' = AddTimer(timers, "disconnect")
             /\ History("other", TRUE,
                        updateEntityStatesPubs(attrState, configured, Unknown),
                        Signal(attrState, configured), configured)
        ELSE /\ attrState' = attrState
             /\ timers' = timers
             /\ History("other", TRUE, <<>>, NoSignal, configured)
  /\ hostWants' = TRUE
  /\ UNCHANGED <<cfgLights, capturedHub, available, configured, refresh>>

\* PhilipsHue.onCfgRemove: disconnect, all entities unavailable, entities cleared
onCfgRemove(op) ==
  /\ disconnectEmits(Stream) => timers.disconnect < MaxTimers
  /\ SetStream(disconnect(Stream))
  /\ LET attr1 == IF disconnectEmits(Stream)
                  THEN updateEntityStates(attrState, configured, Unknown)
                  ELSE attrState
         pubs1 == IF disconnectEmits(Stream)
                  THEN updateEntityStatesPubs(attrState, configured, Unknown)
                  ELSE <<>>
         pubs2 == updateEntityStatesPubs(attr1, configured, Unavailable)
     IN
     /\ timers' = IF disconnectEmits(Stream) THEN AddTimer(timers, "disconnect") ELSE timers
     /\ History(op, FALSE, pubs1 \o pubs2,
                IF disconnectEmits(Stream) THEN Signal(attrState, configured) ELSE NoSignal,
                {})
  /\ attrState' = [l \in Lights |-> NoState]
  /\ configured' = {}
  /\ available' = {}

\* Config.removeHub: emits "remove" only when a bridge id was stored
ConfigRemoveHub ==
  /\ cfgHub' = NoHub
  /\ cfgLights' = {}
  /\ IF cfgHub.bridgeId # ""
     THEN onCfgRemove("remove")
     ELSE /\ History("other", FALSE, <<>>, NoSignal, configured)
          /\ UNCHANGED <<available, configured, attrState, timers, es, orphans, connected>>
  /\ UNCHANGED <<capturedHub, engApiBase, engApiKey, refresh, hostWants>>

\* Config.clear: always emits "remove"
ConfigClear ==
  /\ cfgHub' = NoHub
  /\ cfgLights' = {}
  /\ onCfgRemove("remove")
  /\ UNCHANGED <<capturedHub, engApiBase, engApiKey, refresh, hostWants>>

\* Config.addLight (setup, after the hub was stored): cb -> addAvailableLight
ConfigAddLight(l) ==
  /\ HasHub(cfgHub)
  /\ l \notin cfgLights
  /\ cfgLights' = cfgLights \cup {l}
  /\ available' = available \cup {l}
  /\ History("other", FALSE, <<>>, NoSignal, configured)
  /\ UNCHANGED <<cfgHub, capturedHub, engApiBase, engApiKey, configured, attrState,
                 timers, refresh, es, orphans, connected, hostWants>>

----------------------------------------------------------------------------
(* Event-stream updates on the full attribute sets *)

\* entity ids: two lights of the registry and an id the registry does not know
EntityIds == {"light-a", "light-b", "light-x"}

\* the ids the hub sends fragments for; light-b is a configured bystander
UpdatedIds == {"light-a", "light-x"}

\* update fragments: id, type and the optional fields syncLightState reads
LightFragments ==
  [id : UpdatedIds,
   type : {"light", "grouped_light"},
   on : {"absent", "true", "false"},
   dimming : {Absent, Present([brightness |-> 50])},
   color_temperature : {Absent, Present([mirek |-> 366, mirek_valid |-> TRUE]),
                        Present([mirek |-> 0, mirek_valid |-> FALSE])},
   color : {Absent, Present([xy |-> Absent]), Present([xy |-> Present([x |-> 31, y |-> 32])])}]

NoAttributes == [a \in AttributeNames |-> Absent]

\* updateEntityAttributes: the given attributes replace the stored ones, the
\* others are kept
MergeAttributes(old, new) ==
  [a \in AttributeNames |-> IF new[a] # Absent THEN new[a] ELSE old[a]]

\* handleEventStreamUpdate: only these fragment types reach syncLightState
IsLightType(type) == type \in {"light", "grouped_light"}

\* syncLightState without its look-up of the configured entity
SyncReaches_anyId(conf, frag) == frag.type = "light"

\* syncLightState goes past its type test and finds the entity configured
SyncReaches(conf, frag) == frag.type = "light" /\ frag.id \in conf

\* es.onmessage with one `update` message carrying one fragment:
\* handleEventStreamUpdate -> syncLightState -> updateEntityAttributes
SyncUpdate(frag) ==
  /\ IF IsLightType(frag.type) /\ SyncReaches(entConfigured, frag)
     THEN /\ entAttrs' = [entAttrs EXCEPT ![frag.id] = MergeAttributes(@, lightState(frag))]
          /\ lastPub' = << [id |-> frag.id, attrs |-> lightState(frag)] >>
     ELSE /\ entAttrs' = entAttrs
          /\ lastPub' = <<>>
  /\ handled' = Present(frag)
  /\ UNCHANGED <<entConfigured, regFeatures>>

\* a light resource as getLight answers with it (mirek_schema: the field is there)
HubResource(dimming, color_temperature, color) ==
  [id |-> "light-a", type |-> "light", on |-> "true", dimming |-> dimming,
   color_temperature |-> color_temperature, color |-> color]

\* a colour light as the hub reported it when setup stored it
FullResource ==
  HubResource(Present([brightness |-> 50]),
              Present([mirek |-> 366, mirek_valid |-> TRUE, mirek_schema |-> TRUE]),
              Present([xy |-> Present([x |-> 31, y |-> 32])]))

\* the answers of a later getLight: the same fields, or none of the optional ones
HubResources == {FullResource, HubResource(Absent, Absent, Absent)}

\* one iteration of updateLights whose getLight answered with `light`:
\* Config.updateLight with the features of the answer, then syncLightState
UpdateLight(light) ==
  /\ light.id \in entConfigured
  /\ regFeatures' = [regFeatures EXCEPT ![light.id] = Present(getLightFeatures(light))]
  /\ IF SyncReaches(entConfigured, light)
     THEN /\ entAttrs' = [entAttrs EXCEPT ![light.id] = MergeAttributes(@, lightState(light))]
          /\ lastPub' = << [id |-> light.id, attrs |-> lightState(light)] >>
     ELSE /\ entAttrs' = entAttrs
          /\ lastPub' = <<>>
  /\ handled' = Absent
  /\ UNCHANGED entConfigured

\* attributes an entity may hold from earlier updates
SampleAttributes ==
  [state |-> Present("ON"), brightness |-> Present(255),
   color_temperature |-> Present(mirekToColorTemp(153)),
   hue |-> Present(Num(0)), saturation |-> Present(Num(255))]

\* the attribute store while other parts are explored
SyncIdle ==
  /\ entConfigured = {}
  /\ entAttrs = [id \in EntityIds |-> NoAttributes]
  /\ lastPub = <<>>
  /\ handled = Absent
  /\ regFeatures = [id \in EntityIds |-> Absent]

----------------------------------------------------------------------------
(* The converters applied to what a hub may report *)

\* the mirek range of the hub, from the comment in mirekToColorTemp
MirekMin == 153

MirekMax == 500

\* light resources as the hub sends them: brightness in percent, mirek, and
\* xy in hundredths, with values outside the native ranges among them
HubLights ==
  [on : {"true"},
   dimming : {Absent} \cup {Present([brightness |-> b]) : b \in {0, 1, 50, 100, 150}},
   color_temperature :
     {Absent, Present([mirek |-> 0, mirek_valid |-> FALSE])}
       \cup {Present([mirek |-> mk, mirek_valid |-> TRUE]) : mk \in {100, 153, 366, 500, 600}},
   color : {Absent} \cup {Present([xy |-> Present([x |-> xy[1], y |-> xy[2]])]) :
                            xy \in {<<31, 32>>, <<70, 30>>, <<15, 5>>}}]

NoLight == [on |-> "absent", dimming |-> Absent, color_temperature |-> Absent,
            color |-> Absent]

\* bridge ids in their canonical form
BridgeIds ==
  {<<"0", "0", "1", "7", "8", "8", "a", "a", "a", "a", "a", "a">>,
   <<"e", "c", "b", "5", "f", "a", "0", "b", "1", "c", "2", "d">>,
   <<"0", "0", "1", "7", "8", "8", "f", "f", "f", "e", "0", "f">>}

\* the form mDNS reports: a colon after every two characters
ColonForm(id) ==
  [i \in 1..17 |-> IF i % 3 = 0 THEN ":" ELSE id[i - (i \div 3)]]

\* the form N-UPnP reports: "fffe" in the middle
Eui64Form(id) == SubSeq(id, 1, 6) \o <<"f", "f", "f", "e">> \o SubSeq(id, 7, 12)

UpperChar(c) ==
  CASE c = "a" -> "A" [] c = "b" -> "B" [] c = "c" -> "C"
    [] c = "d" -> "D" [] c = "e" -> "E" [] c = "f" -> "F"
    [] OTHER -> c

\* a text in lower case, in upper case, and with every other letter in upper case
LetterCases(text) ==
  {text,
   [i \in 1..Len(text) |-> UpperChar(text[i])],
   [i \in 1..Len(text) |-> IF i % 2 = 1 THEN UpperChar(text[i]) ELSE text[i]]}

\* the forms in which the identifier `id` reaches normalizeBridgeId
FormsOf(id) == UNION {LetterCases(t) : t \in {id, ColonForm(id), Eui64Form(id)}}

\* an argument of kind `kind`: a light resource, a mirek value, a number or
\* a text
ConvInput(kind, light, mirek, number, text) ==
  [kind |-> kind, light |-> light, mirek |-> mirek, number |-> number, text |-> text]

ConvInputs ==
  {ConvInput("light", l, 0, 0, <<>>) : l \in HubLights}
    \cup {ConvInput("mirek", NoLight, mk, 0, <<>>) : mk \in MirekMin..MirekMax}
    \cup {ConvInput("brightness", NoLight, 0, b, <<>>) : b \in 0..255}
    \cup {ConvInput("percent", NoLight, 0, pc, <<>>) : pc \in 0..100}
    \cup {ConvInput("bridgeId", NoLight, 0, 0, t) : t \in UNION {FormsOf(id) : id \in BridgeIds}}

NoConversion == [attrs |-> Absent, colorTemp |-> Absent, mirek |-> Absent,
                 number |-> Absent, text |-> Absent, again |-> Absent]

\* syncLightState builds the attributes it publishes for the light
SyncLight ==
  /\ convIn.kind = "light"
  /\ convOut.attrs = Absent
  /\ convOut' = [convOut EXCEPT !.attrs = Present(lightState(convIn.light))]
  /\ UNCHANGED convIn

\* mirekToColorTemp is applied to the mirek value
ToColorTemp ==
  /\ convIn.kind = "mirek"
  /\ convOut.colorTemp = Absent
  /\ convOut' = [convOut EXCEPT !.colorTemp = Present(mirekToColorTemp(convIn.mirek))]
  /\ UNCHANGED convIn

\* colorTempToMirek is applied to the result of mirekToColorTemp
ToMirek ==
  /\ convOut.colorTemp # Absent
  /\ convOut.mirek = Absent
  /\ convOut' = [convOut EXCEPT !.mirek = Present(colorTempToMirek(convOut.colorTemp[1]))]
  /\ UNCHANGED convIn

\* brightnessToPercent is applied to a brightness of the integration API
ToPercent ==
  /\ convIn.kind = "brightness"
  /\ convOut.number = Absent
  /\ convOut' = [convOut EXCEPT !.number = Present(brightnessToPercent(convIn.number))]
  /\ UNCHANGED convIn

\* percentToBrightness is applied to a percentage of the hub
ToBrightness ==
  /\ convIn.kind = "percent"
  /\ convOut.number = Absent
  /\ convOut' = [convOut EXCEPT !.number = Present(percentToBrightness(convIn.number))]
  /\ UNCHANGED convIn

\* normalizeBridgeId is applied to a bridge id
Normalize ==
  /\ convIn.kind = "bridgeId"
  /\ convOut.text = Absent
  /\ convOut' = [convOut EXCEPT !.text = Present(normalizeBridgeId(convIn.text))]
  /\ UNCHANGED convIn

\* normalizeBridgeId is applied to its own result
NormalizeAgain ==
  /\ convOut.text # Absent
  /\ convOut.again = Absent
  /\ convOut' = [convOut EXCEPT !.again = Present(normalizeBridgeId(convOut.text[1]))]
  /\ UNCHANGED convIn

\* the converters while other parts are explored
ConvIdle ==
  /\ convIn = ConvInput("none", NoLight, 0, 0, <<>>)
  /\ convOut = NoConversion

----------------------------------------------------------------------------
(* PhilipsHueSetup: values *)

\* enum SetupSteps
SetupSteps == {"INIT", "CONFIGURATION_MODE", "DISCOVER", "DEVICE_CHOICE",
               "PRESS_THE_BUTTON", "COMPLETED"}

\* What answers on the network.  `hue`: GET /api/config returns a bridgeid
\* (is_hue_bridge resolves); `v2`: GET /clip/v2/resource is refused with 403
\* (is_v2_bridge resolves to true); `username`: the key POST /api issues once
\* the link button was pressed; `address`: service.referer.address of the
\* mDNS answer, Absent when the answer carries none.
BridgeV2 == [id |-> "001788aaaaaa", ip |-> "10.0.0.5", name |-> "Bridge",
             hue |-> TRUE, v2 |-> TRUE, username |-> "abc", address |-> Present("10.0.0.5")]

BridgeV1 == [id |-> "001788cccccc", ip |-> "10.0.0.7", name |-> "Bridge1",
             hue |-> TRUE, v2 |-> FALSE, username |-> "old", address |-> Present("10.0.0.7")]

OtherDevice == [id |-> "printer", ip |-> "10.0.0.8", name |-> "Printer",
                hue |-> FALSE, v2 |-> FALSE, username |-> "", address |-> Present("10.0.0.8")]

NoAddress == [id |-> "ghost", ip |-> "", name |-> "Ghost",
              hue |-> FALSE, v2 |-> FALSE, username |-> "", address |-> Absent]

\* the services answering a browse for type "hue"
Services == {BridgeV2, BridgeV1, OtherDevice, NoAddress}

\* the device reached under a base URL
DeviceAt(url) == CHOOSE d \in Services : getHubUrl(d.ip) = url

\* interface HueHub
HueHub(id, ip, name) == [id |-> id, ip |-> ip, name |-> name]

\* selectedHub: HueHub | null
NoSelection == HueHub("", "", "")

\* msg.inputValues of a UserDataResponse: the fields the handlers read
InputValues(action, address, hubId) == [action |-> action, address |-> address, hubId |-> hubId]

UserInputs ==
  {InputValues(Present(a), Absent, Absent) : a \in {"add", "info", "remove", "reset", "other"}}
  \cup {InputValues(Absent, Present(a), Absent) : a \in {"", "10.0.0.5", "10.0.0.7"}}
  \cup {InputValues(Absent, Absent, h) :
          h \in {Absent, Present(""), Present("001788aaaaaa"), Present("001788cccccc"),
                 Present("no-such-hub")}}

\* `!v` of an optional string field
Missing(v) == v = Absent \/ v = Present("")

\* the setup actions handed back to the host
SetupComplete == [type |-> "SetupComplete", text |-> "", items |-> <<>>]

SetupError(text) == [type |-> "SetupError", text |-> text, items |-> <<>>]

RequestUserInput(title, items) == [type |-> "RequestUserInput", text |-> title, items |-> items]

RequestUserConfirmation(title) == [type |-> "RequestUserConfirmation", text |-> title, items |-> <<>>]

NoAnswer == [type |-> "", text |-> "", items |-> <<>>]

NoInput == InputValues(Absent, Absent, Absent)

\* history of the last step: the handler that ran, the input values it was
\* given, the outcome of the await it resumed from, whether it sent POST /api
Op(name, values, outcome) ==
  [op |-> name, values |-> values, outcome |-> outcome, credentialRequest |-> FALSE]

NoOp == Op("init", NoInput, "")

\* a handler suspended at an await (`at`), with the address its request went
\* to or the action it was given (`arg`); `abandoned`: the host aborted the
\* setup it belongs to and no longer waits for its answer
Call(at, arg, abandoned) == [at |-> at, arg |-> arg, abandoned |-> abandoned]

RemoveAt(s, k) == [i \in 1..(Len(s) - 1) |-> IF i < k THEN s[i] ELSE s[i + 1]]

\* the host waits for the answer to one message before it sends the next;
\* only AbortDriverSetup may overtake a handler
HostWaits == \E k \in 1..Len(pending) : ~pending[k].abandoned

Abandon(p) == [k \in 1..Len(p) |-> [p[k] EXCEPT !.abandoned = TRUE]]

----------------------------------------------------------------------------
(* PhilipsHueSetup: handleHubDiscovery *)

\* what the callback given to hubs.filter resolves to for one hub:
\* is_hue_bridge must not throw and is_v2_bridge must return true
verifyHub(hub) ==
  LET d == DeviceAt(getHubUrl(hub.ip)) IN d.hue /\ d.v2

\* the value the callback returns to Array.filter: an async function returns
\* a promise of its result
verifyHubCallback(hub) == [promise |-> verifyHub(hub)]

\* Array.filter keeps the elements whose callback value is truthy; a promise
\* is an object, and every object is truthy
Truthy(v) == v \in [promise : BOOLEAN] \/ v = TRUE

\* filteredHubs
filteredHubs(hs) == SelectSeq(hs, LAMBDA hub : Truthy(verifyHubCallback(hub)))

\* hubItems
hubItems(hs) == [i \in 1..Len(hs) |-> hs[i].id]

\* the part of handleHubDiscovery up to its first await: a manual address
\* sends GET /api/config to it, otherwise a browser is started and the
\* handler sleeps for the collection window
DiscoveryStart(name, values) ==
  /\ Len(pending) < MaxPending
  /\ hubs' = <<>>
  /\ IF ~Missing(values.address)
     THEN /\ pending' = Append(pending, Call("getHubConfig", values.address[1], FALSE))
          /\ browsing' = browsing
     ELSE /\ pending' = Append(pending, Call("delay", "", FALSE))
          /\ browsing' = TRUE
  /\ setupOp' = Op(name, NoInput, "")
  /\ setupAnswer' = NoAnswer

\* the part of handleHubDiscovery after the candidates were collected
DiscoveryTail(hs) ==
  IF Len(hs) = 0
  THEN /\ setupAnswer' = RequestUserConfirmation("setup.discovery_failed.title")
       /\ UNCHANGED setupStep
  ELSE /\ setupStep' = "DEVICE_CHOICE"
       /\ setupAnswer' = RequestUserInput("setup.discovery.discovered_title",
                                          hubItems(filteredHubs(hs)))

\* the callback of bonjour.find: an answer to a browse that was started
BonjourUp(service) ==
  /\ browsing
  /\ IF service.address = Absent
     THEN hubs' = hubs
     ELSE /\ Len(hubs) < MaxHubs
          /\ hubs' = Append(hubs, HueHub(service.id, service.address[1], service.name))
  /\ setupOp' = Op("bonjour", NoInput, "")
  /\ setupAnswer' = NoAnswer
  /\ UNCHANGED <<setupStep, cfgAddDevice, selectedHub, browsing, pending, aborted>>
  /\ UNCHANGED engVars

\* handleHubDiscovery resumes after `await delay(4000)`
DiscoveryDone(k) ==
  /\ k \in 1..Len(pending)
  /\ pending[k].at = "delay"
  /\ pending' = RemoveAt(pending, k)
  /\ DiscoveryTail(hubs)
  /\ setupOp' = Op("handleHubDiscovery", NoInput, "delay")
  /\ UNCHANGED <<cfgAddDevice, hubs, selectedHub, browsing, aborted>>
  /\ UNCHANGED engVars

\* handleHubDiscovery resumes after `await this.hueApi.getHubConfig()`
ManualDone(k, ok) ==
  /\ k \in 1..Len(pending)
  /\ pending[k].at = "getHubConfig"
  /\ pending' = RemoveAt(pending, k)
  /\ LET address == pending[k].arg
         device == DeviceAt(getHubUrl(address))
     IN
     /\ ok => device.hue
     /\ IF ~ok
        THEN /\ setupAnswer' = SetupError("CONNECTION_REFUSED")
             /\ UNCHANGED <<hubs, setupStep>>
        ELSE IF cfgAddDevice /\ cfgHub.bridgeId = device.id
        THEN /\ hubs' = hubs
             /\ DiscoveryTail(hubs)
        ELSE /\ Len(hubs) < MaxHubs
             /\ hubs' = Append(hubs, HueHub(device.id, address, device.name))
             /\ DiscoveryTail(Append(hubs, HueHub(device.id, address, device.name)))
  /\ setupOp' = Op("handleHubDiscovery", NoInput, IF ok THEN "getHubConfig" ELSE "fail")
  /\ UNCHANGED <<cfgAddDevice, selectedHub, browsing, aborted>>
  /\ UNCHANGED engVars

----------------------------------------------------------------------------
(* PhilipsHueSetup: the handlers behind handleSetup *)

\* Config.addLight for each light of the answer, cb -> addAvailableLight
ConfigAddLights(S) ==
  /\ cfgLights' = cfgLights \cup S
  /\ available' = available \cup S
  /\ History("other", FALSE, <<>>, NoSignal, configured)
  /\ UNCHANGED <<cfgHub, capturedHub, engApiBase, engApiKey, configured, attrState,
                 timers, refresh, es, orphans, connected, hostWants>>

\* the hub handleUserConfirmationResponse hands to config.updateHubConfig
PairedHub_noUsername(selected, username) ==
  [name |-> selected.name, ip |-> selected.ip, username |-> "", bridgeId |-> selected.id]

PairedHub(selected, username) ==
  [name |-> selected.name, ip |-> selected.ip, username |-> username, bridgeId |-> selected.id]

\* this.hubs.find((hub) => hub.id === hubId): the first match, NoSelection for undefined
findHub_first(hs, hubId) ==
  IF Len(hs) > 0 THEN hs[1] ELSE NoSelection

findHub(hs, hubId) ==
  IF \E i \in 1..Len(hs) : hs[i].id = hubId
  THEN hs[CHOOSE i \in 1..Len(hs) :
            /\ hs[i].id = hubId
            /\ \A j \in 1..(i - 1) : hs[j].id # hubId]
  ELSE NoSelection

\* the actions offered by the configuration screen
dropdownActions(hub) ==
  IF hub.ip # "" /\ hub.username # "" /\ hub.bridgeId # ""
  THEN <<"info", "remove", "reset">>
  ELSE <<"add">>

\* handleSetup in step COMPLETED: whatever the message, back to INIT
handleSetupCompleted(kind) ==
  /\ setupStep = "COMPLETED"
  /\ kind = "AbortDriverSetup" \/ ~HostWaits
  /\ setupStep' = "INIT"
  /\ setupAnswer' = SetupComplete
  /\ setupOp' = Op(kind, NoInput, "completed")
  /\ pending' = (IF kind = "AbortDriverSetup" THEN Abandon(pending) ELSE pending)
  /\ aborted' = (IF kind = "AbortDriverSetup" THEN TRUE
                 ELSE IF kind = "DriverSetupRequest" THEN FALSE ELSE aborted)
  /\ UNCHANGED <<cfgAddDevice, hubs, selectedHub, browsing>>
  /\ UNCHANGED engVars

\* handleSetup(DriverSetupRequest) -> handleDriverSetup
handleDriverSetup(reconfigure) ==
  /\ setupStep # "COMPLETED"
  /\ ~HostWaits
  /\ cfgAddDevice' = FALSE
  /\ aborted' = FALSE
  /\ selectedHub' = selectedHub
  /\ IF reconfigure
     THEN /\ setupStep' = "CONFIGURATION_MODE"
          /\ setupAnswer' = RequestUserInput("setup.configuration.title", dropdownActions(cfgHub))
          /\ setupOp' = Op("handleDriverSetup", NoInput, "reconfigure")
          /\ UNCHANGED <<hubs, browsing, pending>>
          /\ UNCHANGED engVars
     ELSE /\ ConfigClear
          /\ setupStep' = "DISCOVER"
          /\ DiscoveryStart("handleDriverSetup", NoInput)

\* handleSetup(UserConfirmationResponse)
handleUserConfirmation(confirm) ==
  /\ setupStep # "COMPLETED"
  /\ ~HostWaits
  /\ UNCHANGED <<cfgAddDevice, selectedHub, aborted, setupStep>>
  /\ UNCHANGED engVars
  /\ IF setupStep = "DISCOVER"
     THEN DiscoveryStart("UserConfirmationResponse", NoInput)
     ELSE IF setupStep = "PRESS_THE_BUTTON"
     THEN \* handleUserConfirmationResponse up to `await generateAuthKey`
          IF confirm /\ selectedHub # NoSelection
          THEN /\ Len(pending) < MaxPending
               /\ pending' = Append(pending, Call("generateAuthKey", selectedHub.ip, FALSE))
               /\ setupOp' = [Op("UserConfirmationResponse", NoInput, "")
                                EXCEPT !.credentialRequest = TRUE]
               /\ setupAnswer' = NoAnswer
               /\ UNCHANGED <<hubs, browsing>>
          ELSE /\ setupAnswer' = SetupError("User did not confirm")
               /\ setupOp' = Op("UserConfirmationResponse", NoInput, "")
               /\ UNCHANGED <<hubs, browsing, pending>>
     ELSE /\ setupAnswer' = SetupComplete
          /\ setupOp' = Op("UserConfirmationResponse", NoInput, "")
          /\ UNCHANGED <<hubs, browsing, pending>>

\* handleUserConfirmationResponse resumes after `await generateAuthKey`:
\* "success" (the hub issued a key), "button" (the hub answered with the
\* error `link button not pressed`), "unreachable" (no answer)
AuthKeyReturn(k, outcome) ==
  /\ k \in 1..Len(pending)
  /\ pending[k].at = "generateAuthKey"
  /\ LET device == DeviceAt(getHubUrl(pending[k].arg)) IN
     /\ outcome \in {"success", "button"} => device.hue
     /\ IF outcome = "success"
        THEN /\ ConfigUpdateHub(PairedHub(selectedHub, device.username))
             /\ pending' = [pending EXCEPT ![k] = Call("getLights", pending[k].arg,
                                                       pending[k].abandoned)]
             /\ setupAnswer' = NoAnswer
        ELSE /\ setupAnswer' = SetupError("Failed to get hub configuration")
             /\ pending' = RemoveAt(pending, k)
             /\ UNCHANGED engVars
  /\ setupOp' = Op("generateAuthKey", NoInput, outcome)
  /\ UNCHANGED <<setupStep, cfgAddDevice, hubs, selectedHub, browsing, aborted>>

\* handleUserConfirmationResponse resumes after `await getLights`
GetLightsReturn(k, ok, data) ==
  /\ k \in 1..Len(pending)
  /\ pending[k].at = "getLights"
  /\ pending' = RemoveAt(pending, k)
  /\ ok => DeviceAt(getHubUrl(pending[k].arg)).v2
  /\ IF ok
     THEN /\ ConfigAddLights(data)
          /\ setupAnswer' = SetupComplete
     ELSE /\ data = {}
          /\ setupAnswer' = SetupError("Failed to get hub configuration")
          /\ UNCHANGED engVars
  /\ setupOp' = Op("getLights", NoInput, IF ok THEN "success" ELSE "fail")
  /\ UNCHANGED <<setupStep, cfgAddDevice, hubs, selectedHub, browsing, aborted>>

\* handleUserDataResponse; `img`: convertImageToBase64 found the image
handleUserDataResponse(values) ==
  /\ UNCHANGED <<hubs, browsing, pending>>
  /\ IF Missing(values.hubId)
     THEN /\ setupAnswer' = SetupError("No hub selected")
          /\ UNCHANGED <<selectedHub, setupStep>>
     ELSE IF findHub(hubs, values.hubId[1]) = NoSelection
     THEN /\ setupAnswer' = SetupError("Hub not found")
          /\ UNCHANGED <<selectedHub, setupStep>>
     ELSE /\ selectedHub' = findHub(hubs, values.hubId[1])
          /\ \E img \in BOOLEAN :
             IF img
             THEN /\ setupStep' = "PRESS_THE_BUTTON"
                  /\ setupAnswer' = RequestUserConfirmation("setup.confirmation.title")
             ELSE /\ setupStep' = setupStep
                  /\ setupAnswer' = SetupError("Failed to process image during setup")

\* handleSetup(UserDataResponse)
handleUserData(values) ==
  /\ setupStep # "COMPLETED"
  /\ ~HostWaits
  /\ UNCHANGED <<cfgAddDevice, aborted>>
  /\ UNCHANGED engVars
  /\ IF setupStep = "CONFIGURATION_MODE" /\ values.action # Absent
     THEN \* handleConfigurationMode up to its `await` of 500 ms
          /\ Len(pending) < MaxPending
          /\ pending' = Append(pending, Call("configurationMode", values.action[1], FALSE))
          /\ setupOp' = Op("UserDataResponse", NoInput, "")
          /\ setupAnswer' = NoAnswer
          /\ UNCHANGED <<setupStep, hubs, selectedHub, browsing>>
     ELSE IF setupStep = "DISCOVER"
     THEN /\ DiscoveryStart("UserDataResponse", values)
          /\ UNCHANGED <<setupStep, selectedHub>>
     ELSE IF setupStep = "DEVICE_CHOICE"
     THEN /\ handleUserDataResponse(values)
          /\ setupOp' = Op("handleUserDataResponse", values, "")
     ELSE /\ setupAnswer' = SetupComplete
          /\ setupOp' = Op("UserDataResponse", NoInput, "")
          /\ UNCHANGED <<setupStep, hubs, selectedHub, browsing, pending>>

\* the call on the registry each case of the switch makes
configCall_infoClears(action) ==
  IF action \in {"info", "reset"} THEN "clear"
  ELSE IF action = "remove" THEN "removeHub" ELSE "none"

configCall_removeNothing(action) ==
  IF action = "reset" THEN "clear" ELSE "none"

configCall(action) ==
  IF action = "remove" THEN "removeHub"
  ELSE IF action = "reset" THEN "clear"
  ELSE "none"

\* the text `info` shows for one probe: the probe is made only when the
\* registry holds a hub with address and username, and its failure is
\* caught and shown
infoText(hubCfg, ok) ==
  IF hubCfg.ip # "" /\ hubCfg.username # ""
  THEN (IF ok THEN "json" ELSE "Error")
  ELSE "setup.info.not_configured"

\* handleConfigurationMode resumes after the 500 ms. The two probes of
\* `info` are awaited in turn; their outcome is the hub's choice
ConfigurationModeContinue(k) ==
  /\ k \in 1..Len(pending)
  /\ pending[k].at = "configurationMode"
  /\ pending' = RemoveAt(pending, k)
  /\ setupOp' = Op("handleConfigurationMode", NoInput, pending[k].arg)
  /\ UNCHANGED <<hubs, selectedHub, browsing, aborted>>
  /\ LET action == pending[k].arg IN
     /\ IF configCall(action) = "removeHub" THEN ConfigRemoveHub
        ELSE IF configCall(action) = "clear" THEN ConfigClear
        ELSE UNCHANGED engVars
     /\ IF action = "add"
        THEN /\ cfgAddDevice' = TRUE
             /\ setupStep' = "DISCOVER"
             /\ setupAnswer' = RequestUserInput("setup.discovery.title", <<>>)
        ELSE IF action = "info"
        THEN /\ setupStep' = "COMPLETED"
             /\ \E hubOk, lightsOk \in BOOLEAN :
                  setupAnswer' = RequestUserInput("Philips Hue",
                                   <<infoText(cfgHub, hubOk), infoText(cfgHub, lightsOk)>>)
             /\ UNCHANGED cfgAddDevice
        ELSE IF action = "remove"
        THEN /\ setupAnswer' = SetupComplete
             /\ UNCHANGED <<cfgAddDevice, setupStep>>
        ELSE IF action = "reset"
        THEN /\ setupStep' = "DISCOVER"
             /\ setupAnswer' = RequestUserInput("setup.discovery.title", <<>>)
             /\ UNCHANGED <<cfgAddDevice>>
        ELSE /\ setupAnswer' = SetupError("OTHER")
             /\ UNCHANGED <<cfgAddDevice, setupStep>>

\* handleSetup(AbortDriverSetup)
AbortDriverSetup ==
  /\ setupStep # "COMPLETED"
  /\ hubs' = <<>>
  /\ setupStep' = "INIT"
  /\ setupAnswer' = SetupComplete
  /\ setupOp' = Op("AbortDriverSetup", NoInput, "")
  /\ pending' = Abandon(pending)
  /\ aborted' = TRUE
  /\ UNCHANGED <<cfgAddDevice, selectedHub, browsing>>
  /\ UNCHANGED engVars

\* the setup flow before the host starts it
SetupIdle ==
  /\ setupStep = "INIT"
  /\ cfgAddDevice = FALSE
  /\ hubs = <<>>
  /\ selectedHub = NoSelection
  /\ browsing = FALSE
  /\ pending = <<>>
  /\ aborted = FALSE
  /\ setupOp = NoOp
  /\ setupAnswer = NoAnswer

----------------------------------------------------------------------------
(* Specifications *)

\* the engine part while only sendRequest is explored
EngineIdle ==
  /\ cfgHub = NoHub
  /\ cfgLights = {}
  /\ capturedHub = NoHub
  /\ engApiBase = NoUrl
  /\ engApiKey = Undefined
  /\ available = {}
  /\ configured = {}
  /\ attrState = [l \in Lights |-> NoState]
  /\ timers = [error |-> 0, disconnect |-> 0]
  /\ refresh = <<>>
  /\ es = NoSource
  /\ orphans = NoOrphans
  /\ connected = FALSE
  /\ hostWants = FALSE
  /\ lastOp = "init"
  /\ didConnect = FALSE
  /\ pubUnknown = [l \in Lights |-> 0]
  /\ signal = NoSignal
  /\ unknownPubs = [l \in Lights |-> 0]
  /\ overtaken = {}

\* PhilipsHue constructor and init(): the registry is loaded (empty, or a hub
\* with its lights), the API gets the stored credentials, the stored lights
\* become available entities, setupEventStreamEvents captures the hub
InitEngine ==
  /\ cfgHub \in {NoHub, HubA}
  /\ cfgLights = (IF HasHub(cfgHub) THEN Lights ELSE {})
  /\ capturedHub = cfgHub
  /\ engApiBase = (IF HasHub(cfgHub) THEN getHubUrl(cfgHub.ip) ELSE NoUrl)
  /\ engApiKey = (IF HasHub(cfgHub) THEN cfgHub.username ELSE Undefined)
  /\ available = cfgLights
  /\ configured = {}
  /\ attrState = [l \in Lights |-> NoState]
  /\ timers = [error |-> 0, disconnect |-> 0]
  /\ refresh = <<>>
  /\ es = NoSource
  /\ orphans = NoOrphans
  /\ connected = FALSE
  /\ hostWants = FALSE
  /\ lastOp = "init"
  /\ didConnect = FALSE
  /\ pubUnknown = [l \in Lights |-> 0]
  /\ signal = NoSignal
  /\ unknownPubs = [l \in Lights |-> 0]
  /\ overtaken = {}

----------------------------------------------------------------------------
(* PhilipsHue.handleLightCmd *)

\* the body of a PUT /clip/v2/resource/light/{id}; color: whether `color.xy` is set
LightRequest(on, dimming, color_temperature, color) ==
  [on |-> on, dimming |-> dimming, color_temperature |-> color_temperature,
   color |-> color]

\* LightResource.setOn: { on: { on } }
setOn(on) == LightRequest(IF on THEN "true" ELSE "false", Absent, Absent, FALSE)

\* params of a command; Absent: `params?.name` is undefined
CmdParams(brightness, color_temperature, hue, saturation) ==
  [brightness |-> brightness, color_temperature |-> color_temperature,
   hue |-> hue, saturation |-> saturation]

NoParams == CmdParams(Absent, Absent, Absent, Absent)

\* case LightCommands.On: the request built from the parameters
onRequest(params) ==
  LightRequest(IF params.brightness = Absent THEN "absent"
               ELSE IF params.brightness[1] = 0 THEN "false" ELSE "true",
               IF params.brightness = Absent \/ params.brightness = Present(0) THEN Absent
               ELSE Present(brightnessToPercent(params.brightness[1])),
               IF params.color_temperature = Absent THEN Absent
               ELSE Present(colorTempToMirek([num |-> params.color_temperature[1], den |-> 1])),
               params.hue # Absent /\ params.saturation # Absent)

\* the switch over `command`: the request of the case, Absent for the default case
lightCmdRequest(cmd) ==
  CASE cmd.command = "toggle" -> Present(setOn(cmd.state # "ON"))
    [] cmd.command = "on" -> Present(onRequest(cmd.params))
    [] cmd.command = "off" -> Present(setOn(FALSE))
    [] OTHER -> Absent

\* what the awaited call does: it resolves, it throws a HueError of sendRequest,
\* or it throws something else (`res.data` of a null body)
NonHueError == [kind |-> "throw", status |-> "", message |-> Msg("", 0), data |-> ""]

HubAnswers ==
  {Returned("d1"), NonHueError} \cup {HueError(Msg("", 0), st) : st \in StatusClasses}

\* handleLightCmd that does not wait for the hub's answer
lightCmdStatus_notAwaited(answer) == "Ok"

\* handleLightCmd: the status code returned once the awaited call is over
lightCmdStatus(answer) ==
  IF answer.kind = "ok" THEN "Ok"
  ELSE IF answer.kind = "error" THEN answer.status
  ELSE "ServerError"

LightCmd(command, params, state) == [command |-> command, params |-> params, state |-> state]

\* the commands the host sends, with the state the entity holds then
LightCmds ==
  {LightCmd("on", CmdParams(b, ct, h, sat), "ON") :
     b \in {Absent, Present(0), Present(1), Present(128), Present(255)},
     ct \in {Absent, Present(0), Present(50)},
     h \in {Absent, Present(120)},
     sat \in {Absent, Present(50)}}
    \cup {LightCmd(c, NoParams, st) :
            c \in {"toggle", "off", "on", "dim"}, st \in {"ON", "OFF", "UNKNOWN"}}

CmdRun(pc, sent, answer, status) ==
  [pc |-> pc, sent |-> sent, answer |-> answer, status |-> status]

NoRun == CmdRun("idle", Absent, Absent, Absent)

\* handleLightCmd up to its await, or to the return of the default case
handleLightCmd ==
  /\ cmdRun.pc = "idle"
  /\ cmdRun' = IF lightCmdRequest(cmdIn) = Absent
               THEN CmdRun("done", Absent, Absent, Present("BadRequest"))
               ELSE CmdRun("awaiting", lightCmdRequest(cmdIn), Absent, Absent)
  /\ UNCHANGED cmdIn

\* handleLightCmd resumes: `return StatusCodes.Ok`, or the catch block
LightCmdReturn(answer) ==
  /\ cmdRun.pc = "awaiting"
  /\ cmdRun' = CmdRun("done", cmdRun.sent, Present(answer), Present(lightCmdStatus(answer)))
  /\ UNCHANGED cmdIn

\* no command while other parts are explored
CmdIdle ==
  /\ cmdIn = LightCmd("none", NoParams, "UNKNOWN")
  /\ cmdRun = NoRun

\* the sendRequest part while the engine is explored
ApiIdle ==
  /\ authKey = Undefined
  /\ rqPc = "idle"
  /\ rqAuthRequired = TRUE
  /\ retries = 0
  /\ statusCode = 0
  /\ rqSent = 0
  /\ rqDelays = <<>>
  /\ rqResponses = <<>>
  /\ rqResult = NoResult
  /\ rqCause = NoCause
  /\ hubUrl = Undefined
  /\ v2Bridge = [pc |-> "none", answer |-> FALSE]

InitApi ==
  /\ authKey \in {Undefined, "", "key1"}
  /\ rqPc = "idle"
  /\ rqAuthRequired = TRUE
  /\ retries = 0
  /\ statusCode = 0
  /\ rqSent = 0
  /\ rqDelays = <<>>
  /\ rqResponses = <<>>
  /\ rqResult = NoResult
  /\ rqCause = NoCause
  /\ hubUrl \in {Undefined, "http://hub"}
  /\ v2Bridge = [pc |-> "none", answer |-> FALSE]
  /\ EngineIdle
  /\ SyncIdle
  /\ SetupIdle
  /\ ConvIdle
  /\ CmdIdle

NextApi ==
  \/ \E a \in BOOLEAN : /\ v2Bridge.pc = "none"  \* one call of the API per behaviour
                         /\ SendRequest(a)
                         /\ v2Bridge' = v2Bridge
                         /\ UNCHANGED nonApiVars
  \/ is_v2_bridge /\ UNCHANGED nonApiVars
  \/ \E resp \in HubResponses : Attempt(resp) /\ UNCHANGED nonApiVars

SpecApi == InitApi /\ [][NextApi]_vars

InitEng == InitEngine /\ ApiIdle /\ SyncIdle /\ SetupIdle /\ ConvIdle /\ CmdIdle

NextEng ==
  \/ \E S \in SUBSET Lights : handleSubscribeEntities(S) /\ UNCHANGED nonEngVars
  \/ \E S \in SUBSET Lights : handleUnsubscribeEntities(S) /\ UNCHANGED nonEngVars
  \/ handleDisconnect /\ UNCHANGED nonEngVars
  \/ handleEnterStandby /\ UNCHANGED nonEngVars
  \/ handleExitStandby /\ UNCHANGED nonEngVars
  \/ handleConnect /\ UNCHANGED nonEngVars
  \/ \E cause \in {"error", "disconnect"} : ReconnectTimer(cause) /\ UNCHANGED nonEngVars
  \/ \E target \in {"es", "orphan"} : EsOpen(target) /\ UNCHANGED nonEngVars
  \/ \E target \in {"es", "orphan"}, status \in {"connecting", "open"}, fatal \in BOOLEAN :
       EsError(target, status, fatal) /\ UNCHANGED nonEngVars
  \/ \E frag \in Fragments : EsUpdate(frag) /\ UNCHANGED nonEngVars
  \/ \E target \in {"es", "orphan"}, caught \in BOOLEAN :
       EsMalformed(target, caught) /\ UNCHANGED nonEngVars
  \/ \E k \in 1..MaxRefresh, outcome \in {"true", "false", "fail"} :
       UpdateLightsStep(k, outcome) /\ UNCHANGED nonEngVars
  \/ \E hub \in PairableHubs : ConfigUpdateHub(hub) /\ UNCHANGED nonEngVars
  \/ ConfigRemoveHub /\ UNCHANGED nonEngVars
  \/ ConfigClear /\ UNCHANGED nonEngVars
  \/ \E l \in Lights : ConfigAddLight(l) /\ UNCHANGED nonEngVars

SpecEngine == InitEng /\ [][NextEng]_vars

InitSync ==
  /\ entConfigured = {"light-a", "light-b"}
  /\ \E attrsB \in {NoAttributes, SampleAttributes} :
       entAttrs = [id \in EntityIds |-> IF id = "light-b" THEN attrsB ELSE NoAttributes]
  /\ lastPub = <<>>
  /\ handled = Absent
  /\ regFeatures = [id \in EntityIds |-> IF id = "light-x" THEN Absent
                                         ELSE Present(getLightFeatures(FullResource))]
  /\ ApiIdle
  /\ EngineIdle
  /\ SetupIdle
  /\ ConvIdle
  /\ CmdIdle

NextSync ==
  \/ \E frag \in LightFragments : SyncUpdate(frag) /\ UNCHANGED nonSyncVars
  \/ \E light \in HubResources : UpdateLight(light) /\ UNCHANGED nonSyncVars

SpecSync == InitSync /\ [][NextSync]_vars

\* the driver after start-up, with the setup flow in its constructed state
InitSetup == InitEngine /\ ApiIdle /\ SyncIdle /\ SetupIdle /\ ConvIdle /\ CmdIdle

NextSetup ==
  \/ \E kind \in {"DriverSetupRequest", "UserConfirmationResponse", "UserDataResponse",
                  "AbortDriverSetup"} :
       handleSetupCompleted(kind) /\ UNCHANGED nonSetupVars
  \/ \E reconfigure \in BOOLEAN : handleDriverSetup(reconfigure) /\ UNCHANGED nonSetupVars
  \/ \E confirm \in BOOLEAN : handleUserConfirmation(confirm) /\ UNCHANGED nonSetupVars
  \/ \E values \in UserInputs : handleUserData(values) /\ UNCHANGED nonSetupVars
  \/ AbortDriverSetup /\ UNCHANGED nonSetupVars
  \/ \E service \in Services : BonjourUp(service) /\ UNCHANGED nonSetupVars
  \/ \E k \in 1..MaxPending : DiscoveryDone(k) /\ UNCHANGED nonSetupVars
  \/ \E k \in 1..MaxPending, ok \in BOOLEAN : ManualDone(k, ok) /\ UNCHANGED nonSetupVars
  \/ \E k \in 1..MaxPending : ConfigurationModeContinue(k) /\ UNCHANGED nonSetupVars
  \/ \E k \in 1..MaxPending, outcome \in {"success", "button", "unreachable"} :
       AuthKeyReturn(k, outcome) /\ UNCHANGED nonSetupVars
  \/ \E k \in 1..MaxPending, ok \in BOOLEAN, data \in {{}, {1}} :
       GetLightsReturn(k, ok, data) /\ UNCHANGED nonSetupVars

SpecSetup == InitSetup /\ [][NextSetup]_vars

InitConv ==
  /\ convIn \in ConvInputs
  /\ convOut = NoConversion
  /\ ApiIdle
  /\ EngineIdle
  /\ SyncIdle
  /\ SetupIdle
  /\ CmdIdle

NextConv ==
  \/ SyncLight /\ UNCHANGED nonConvVars
  \/ ToColorTemp /\ UNCHANGED nonConvVars
  \/ ToMirek /\ UNCHANGED nonConvVars
  \/ ToPercent /\ UNCHANGED nonConvVars
  \/ ToBrightness /\ UNCHANGED nonConvVars
  \/ Normalize /\ UNCHANGED nonConvVars
  \/ NormalizeAgain /\ UNCHANGED nonConvVars

SpecConv == InitConv /\ [][NextConv]_vars

InitCmd ==
  /\ cmdIn \in LightCmds
  /\ cmdRun = NoRun
  /\ ApiIdle
  /\ EngineIdle
  /\ SyncIdle
  /\ SetupIdle
  /\ ConvIdle

NextCmd ==
  \/ handleLightCmd /\ UNCHANGED nonCmdVars
  \/ \E answer \in HubAnswers : LightCmdReturn(answer) /\ UNCHANGED nonCmdVars

SpecCmd == InitCmd /\ [][NextCmd]_vars

----------------------------------------------------------------------------
(* Claims about HueApi.sendRequest, checked under SpecApi *)

IsRetryStatus(resp) == resp.t = "status" /\ resp.status \in {429, 503}

IsSuccess(resp) == resp.t = "2xx" /\ Len(resp.errors) = 0

LastResponse == rqResponses[Len(rqResponses)]

\* C1: sendRequest re-sends only after a 429 or 503 answer, makes at most 3
\* attempts, waits 250 ms before the 2nd and 500 ms before the 3rd attempt, and
\* returns the data of the first 2xx answer without embedded errors it receives.
C1_RetryPolicy ==
  /\ \A i \in 1..(Len(rqResponses) - 1) : IsRetryStatus(rqResponses[i])
  /\ rqSent = Len(rqResponses)
  /\ rqSent <= 3
  /\ Len(rqDelays) = (IF rqSent = 0 THEN 0 ELSE rqSent - 1)
  /\ \A i \in 1..Len(rqDelays) : rqDelays[i] = 250 * i
  /\ \A i \in 1..Len(rqResponses) :
       IsSuccess(rqResponses[i]) =>
         /\ i = Len(rqResponses)
         /\ rqPc = "done"
         /\ rqResult = Returned(rqResponses[i].data)
  /\ rqResult.kind = "ok" => Len(rqResponses) > 0 /\ IsSuccess(LastResponse)

\* C1 witness: a call that succeeded on its 3rd attempt after two retried answers
C1_Witness ==
  /\ rqPc = "done"
  /\ rqSent = 3
  /\ rqResult.kind = "ok"
  /\ rqDelays = <<250, 500>>

\* C2 (as claimed): when every attempt is answered 429 or 503, the call fails with
\* ServiceUnavailable carrying the number of attempts made.
C2_ExhaustedIsServiceUnavailable ==
  (rqPc = "done" /\ rqSent > 0 /\ \A i \in 1..Len(rqResponses) : IsRetryStatus(rqResponses[i]))
    => /\ rqResult.kind = "error"
       /\ rqResult.status = "ServiceUnavailable"
       /\ rqResult.message.num = rqSent

Is429(resp) == resp.t = "status" /\ resp.status = 429

C4_Expected(resp) ==
  IF resp.t = "status" THEN
    CASE resp.status = 400 -> "BadRequest"
      [] resp.status \in {401, 403} -> "Unauthorized"
      [] resp.status = 404 -> "NotFound"
      [] OTHER -> "ServerError"
  ELSE IF resp.code \in {"ECONNABORTED", "ETIMEDOUT"} THEN "Timeout"
  ELSE "ServiceUnavailable"

\* C4: an attempt that fails with anything other than 429/503 ends the call (a
\* first attempt: exactly one request sent) and is classified 400 -> BadRequest,
\* 401/403 -> Unauthorized, 404 -> NotFound, other status -> ServerError,
\* timeout -> Timeout, no response otherwise -> ServiceUnavailable.
C4_NoRetryAndClassification ==
  \A i \in 1..Len(rqResponses) :
    LET resp == rqResponses[i] IN
    (resp.t \in {"status", "noresponse"} /\ ~IsRetryStatus(resp))
      => /\ i = Len(rqResponses)
         /\ rqSent = i
         /\ rqPc = "done"
         /\ rqResult.kind = "error"
         /\ rqResult.status = C4_Expected(resp)

\* C4 witness: a single request answered 403, failed as Unauthorized
C4_Witness ==
  /\ rqPc = "done"
  /\ rqSent = 1
  /\ rqResponses[1].t = "status" /\ rqResponses[1].status = 403
  /\ rqResult.status = "Unauthorized"

\* C5: with authRequired and no non-empty key the call fails with Unauthorized
\* and sends nothing; with authRequired = false the request is sent although no
\* key is set.
C5_AuthGuard ==
  (rqPc # "idle" /\ Falsy(authKey))
    => IF rqAuthRequired
       THEN /\ rqPc = "done"
            /\ rqSent = 0
            /\ rqResult.kind = "error"
            /\ rqResult.status = "Unauthorized"
       ELSE \/ rqPc = "loop" /\ rqSent = 0
            \/ rqSent >= 1

\* C5 witness: an authenticated call with an empty key was rejected
C5_Witness ==
  /\ rqPc = "done"
  /\ rqAuthRequired
  /\ authKey = ""
  /\ rqSent = 0

HasErrorsBody(resp) == resp.t = "2xx" /\ Len(resp.errors) > 0

\* C6 (as claimed): a 2xx answer with a non-empty errors array fails the call
\* with ServerError whose message is the first embedded error's description,
\* without a retry and without returning the data.
C6_EmbeddedErrorDescription ==
  \A i \in 1..Len(rqResponses) :
    HasErrorsBody(rqResponses[i])
      => /\ i = Len(rqResponses)
         /\ rqPc = "done"
         /\ rqResult.kind = "error"
         /\ rqResult.status = "ServerError"
         /\ rqResult.message.text = rqResponses[i].errors[1].description

\* C6 (amended): ... whose message is the first embedded error's description
\* when that error is an object with a non-empty description, the error itself
\* when it is a plain string, and "Unknown API error" when the description is
\* missing or empty; not retried, the data never returned.
C6_EmbeddedErrorMessage ==
  \A i \in 1..Len(rqResponses) :
    HasErrorsBody(rqResponses[i])
      => LET first == rqResponses[i].errors[1] IN
         /\ i = Len(rqResponses)
         /\ rqPc = "done"
         /\ rqSent = i
         /\ rqResult.kind = "error"
         /\ rqResult.data = ""
         /\ rqResult.status = "ServerError"
         /\ rqResult.message.text =
              (CASE first.shape = "string" -> first.text
                 [] first.shape = "object" /\ first.description \in {Undefined, ""}
                      -> "Unknown API error"
                 [] OTHER -> first.description)

\* C6 witness: a 200 with errors [{description: e1}, {description: e2}] failed with e1
C6_Witness ==
  /\ rqPc = "done"
  /\ Len(rqResponses) = 1
  /\ rqResponses[1].t = "2xx"
  /\ rqResponses[1].errors = <<ErrObj("e1"), ErrObj("e2")>>
  /\ rqResult.message.text = "e1"

----------------------------------------------------------------------------
(* Claims about the event stream and the engine, checked under SpecEngine *)

\* C7: after the engine called eventStream.disconnect() for the host
\* (disconnect, enter-standby, unsubscribe) and before the host asks again
\* (subscribe, exit-standby, hub configuration change), the 2 s timer started
\* by disconnect()'s own `disconnected` signal makes no connect attempt.
C7_NoReconnectAfterDisconnect ==
  (lastOp = "ReconnectAfterDisconnect" /\ ~hostWants) => ~didConnect

\* C8: in every reachable state at most one EventSource is open or still
\* connecting.
C8_SingleConnection == NumLive(Stream) <= 1

\* C9: when the 2 s timer of a transport error fires while a hub is stored in
\* the registry and the host has not asked to disconnect, a connect attempt is
\* made (or an EventSource is still live), also when the hub was paired after
\* init.
C9_ReconnectAfterError ==
  (lastOp = "ReconnectAfterError" /\ HasHub(cfgHub) /\ hostWants)
    => (didConnect \/ NumLive(Stream) > 0)

\* C10, one signal: the configured lights not yet unknown get exactly one
\* `unknown` publish, the lights already unknown get none
C10_Signal ==
  signal'.fired
    => \A l \in signal'.conf :
         pubUnknown'[l] = (IF attrState[l] # Unknown THEN 1 ELSE 0)

\* C10, repeated signals: since its last other state a light was published
\* `unknown` at most once, and exactly once when its state is unknown
C10_Run ==
  \A l \in Lights :
    /\ unknownPubs[l] <= 1
    /\ (l \in configured /\ attrState[l] = Unknown) => unknownPubs[l] = 1

\* C10: on a `disconnected` signal every configured light whose state is not
\* already unknown gets exactly one publish setting it to unknown and a light
\* already unknown gets none; over repeated signals without a state update in
\* between each light is published unknown exactly once.
C10_UnknownPublishedOnce == []C10_Run /\ [][C10_Signal]_vars

\* C10 witness: a signal found one configured light already unknown (no
\* publish) and published unknown once for another one
C10_Witness ==
  /\ signal.fired
  /\ \E l1, l2 \in signal.conf :
       /\ pubUnknown[l1] = 0 /\ unknownPubs[l1] = 1 /\ attrState[l1] = Unknown
       /\ pubUnknown[l2] = 1 /\ unknownPubs[l2] = 1 /\ attrState[l2] = Unknown

\* a light that stays configured leaves `unknown` in this step
LeavesUnknown(l) ==
  /\ l \in configured /\ l \in configured'
  /\ attrState[l] = Unknown
  /\ attrState'[l] # Unknown

\* the step is an event-stream update fragment for light l
IsUpdateFor(l) == \E frag \in Fragments : frag.id = l /\ EsUpdate(frag)

\* the step is the iteration fetching light l of an updateLights call that
\* one of the handlers `origins` started
IsRefreshOf(l, origins) ==
  \E k \in 1..MaxRefresh, outcome \in {"true", "false", "fail"} :
    /\ k <= Len(refresh)
    /\ refresh[k].by \in origins
    /\ Head(refresh[k].lights) = l
    /\ UpdateLightsStep(k, outcome)

\* an update fragment with an `on` field for a configured light sets that
\* light's state to on/off and no other light's state
UpdateChangesOnlyItsLight ==
  (lastOp' = "other" /\ timers' = timers /\ refresh' = refresh /\ es' = es) =>
    \A frag \in Fragments :
      (/\ frag.type = "light" /\ frag.on # "absent" /\ frag.id \in configured
       /\ EsUpdate(frag))
        => /\ attrState'[frag.id] = (IF frag.on = "true" THEN "ON" ELSE "OFF")
           /\ \A m \in Lights \ {frag.id} : attrState'[m] = attrState[m]

\* C11 (as claimed): after a disconnect moved the configured lights to unknown
\* and the stream reconnected, an `on` fragment for one light changes only that
\* light's state, and (no host connect event interfering) a light leaves unknown
\* only by a fragment for that light itself: the reconnect alone moves no light
\* out of unknown.
C11_OnlyOwnFragmentLeavesUnknown ==
  [][UpdateChangesOnlyItsLight
     /\ \A l \in Lights :
          (LeavesUnknown(l) /\ ~IsRefreshOf(l, {"handleConnect"})) => IsUpdateFor(l)]_vars

\* C11 (amended): an `on` fragment for one light changes only that light's
\* state, and a light leaves unknown only by a fragment for that light itself
\* or by the updateLights iteration that fetches that light (the refresh that
\* the reconnect, or a host connect event, starts).
C11_OwnFragmentOrRefreshLeavesUnknown ==
  [][UpdateChangesOnlyItsLight
     /\ \A l \in Lights : LeavesUnknown(l)
            => (IsUpdateFor(l) \/ IsRefreshOf(l, {"handleConnect", "connected"}))]_vars

\* C11 witness: the stream is connected again, light 2 is back to on/off by
\* its fragment while light 1, not yet fetched by the refresh, is still unknown
C11_Witness ==
  /\ connected
  /\ configured = Lights
  /\ attrState[1] = Unknown
  /\ attrState[2] \in {"ON", "OFF"}
  /\ unknownPubs[2] = 0
  /\ refresh # <<>>
  /\ refresh[1].by = "connected"
  /\ Head(refresh[1].lights) = 1

----------------------------------------------------------------------------
(* Claims about syncLightState on full attribute sets, checked under SpecSync *)

\* the attributes whose source field the fragment carries
FieldPresent(frag, a) ==
  CASE a = "state" -> frag.on # "absent"
    [] a = "brightness" -> frag.dimming # Absent
    [] a = "color_temperature" ->
         frag.color_temperature # Absent /\ frag.color_temperature[1].mirek_valid = TRUE
    [] a \in {"hue", "saturation"} -> frag.color # Absent /\ frag.color[1].xy # Absent

\* C12, one step: the handler was given a `light` fragment of a configured light
C12_Step ==
  (handled' # Absent /\ handled'[1].type = "light" /\ handled'[1].id \in entConfigured)
    => LET frag == handled'[1] IN
       /\ Len(lastPub') = 1
       /\ lastPub'[1].id = frag.id
       /\ \A a \in AttributeNames :
            /\ (lastPub'[1].attrs[a] # Absent) <=> FieldPresent(frag, a)
            /\ entAttrs'[frag.id][a] =
                 (IF FieldPresent(frag, a) THEN lastPub'[1].attrs[a] ELSE entAttrs[frag.id][a])
       /\ \A m \in EntityIds \ {frag.id} : entAttrs'[m] = entAttrs[m]

\* C12: syncLightState applied to an update fragment publishes exactly the
\* attributes whose source field is present (state from on, brightness from
\* dimming, color temperature from color_temperature only when mirek_valid,
\* hue and saturation from color.xy); attributes whose field is absent are
\* neither published nor cleared, and no other light's attributes change.
C12_OnlyPresentFields == [][C12_Step]_vars

\* C12 witness: light-a held all five attributes, then a fragment with only
\* a valid color temperature was applied: one attribute published, four kept
C12_Witness ==
  /\ handled # Absent
  /\ handled[1].id = "light-a" /\ handled[1].type = "light"
  /\ handled[1].on = "absent" /\ handled[1].dimming = Absent /\ handled[1].color = Absent
  /\ handled[1].color_temperature # Absent
  /\ Len(lastPub) = 1
  /\ lastPub[1].attrs.color_temperature # Absent
  /\ lastPub[1].attrs.state = Absent
  /\ \A a \in AttributeNames : entAttrs["light-a"][a] # Absent
  /\ entAttrs["light-b"] = SampleAttributes

\* C13: an update fragment whose device id is not a configured entity causes
\* no publish and changes no entity's attributes.
C13_UnknownIdIgnored ==
  [][(handled' # Absent /\ handled'[1].id \notin entConfigured)
       => (lastPub' = <<>> /\ entAttrs' = entAttrs)]_vars

\* C13 witness: a `light` fragment with every field set arrived for an id that
\* is not configured, while the configured lights hold attributes
C13_Witness ==
  /\ handled # Absent
  /\ handled[1].id = "light-x" /\ handled[1].type = "light"
  /\ \A a \in AttributeNames : FieldPresent(handled[1], a)
  /\ lastPub = <<>>
  /\ entAttrs["light-a"].state # Absent
  /\ entAttrs["light-x"] = NoAttributes

----------------------------------------------------------------------------
(* Claims about updateLights, checked under SpecEngine *)

\* the step is Events.Connect with configured entities
IsHostConnect == configured # {} /\ handleConnect

\* C14, start: the updateLights call of Events.Connect is to fetch every
\* configured light exactly once
C14_Start ==
  IsHostConnect
    => LET r == refresh'[Len(refresh')] IN
       /\ Len(refresh') = Len(refresh) + 1
       /\ r.by = "handleConnect"
       /\ Len(r.lights) = Cardinality(configured)
       /\ {r.lights[i] : i \in 1..Len(r.lights)} = configured

\* C14, one iteration: a failed fetch publishes unavailable, a successful one
\* synchronises the light, and in both cases the loop goes on with the rest
C14_Iteration ==
  \A k \in 1..MaxRefresh, outcome \in {"true", "false", "fail"} :
    (/\ k <= Len(refresh) /\ refresh[k].by = "handleConnect"
     /\ refresh' # refresh /\ timers' = timers /\ es' = es
     /\ UpdateLightsStep(k, outcome))
      => LET l == Head(refresh[k].lights)
             rest == Tail(refresh[k].lights)
         IN
         /\ l \in configured
              => attrState'[l] = (CASE outcome = "fail" -> Unavailable
                                   [] outcome = "true" -> "ON"
                                   [] outcome = "false" -> "OFF")
         /\ \A m \in Lights \ {l} : attrState'[m] = attrState[m]
         /\ IF rest = <<>>
            THEN Len(refresh') = Len(refresh) - 1
            ELSE Len(refresh') = Len(refresh) /\ refresh'[k].lights = rest

----------------------------------------------------------------------------
(* Claims about PhilipsHueSetup, checked under SpecSetup *)

\* the last step presented the candidate list of the DeviceChoice step
PresentsCandidates ==
  /\ setupAnswer.type = "RequestUserInput"
  /\ setupAnswer.text = "setup.discovery.discovered_title"

\* C15: the candidate list handleHubDiscovery presents in the DeviceChoice
\* step holds only candidates for which is_hue_bridge succeeded and
\* is_v2_bridge returned true.
C15_OnlyVerifiedCandidates ==
  PresentsCandidates =>
    \A i \in 1..Len(setupAnswer.items) :
      \E d \in Services : d.id = setupAnswer.items[i] /\ d.hue /\ d.v2

\* what handleUserConfirmationResponse answers when the hub cannot be reached
\* and when the enumeration of the lights fails
OtherPairingFailures == {SetupError("Failed to get hub configuration")}

C16_Step ==
  (setupOp'.op = "generateAuthKey" /\ setupOp'.outcome = "button") =>
    /\ setupAnswer'.type = "SetupError"
    /\ setupAnswer' \notin OtherPairingFailures
    /\ setupStep' = setupStep

\* C16: when the hub rejects the credential request because its button was
\* not pressed, the answer differs from the answer to every other pairing
\* failure, and the step is left as it was (PRESS_THE_BUTTON), so that a
\* further confirmation sends the request again.
C16_ButtonNotPressedIsDistinct == [][C16_Step]_vars

\* the key issuance answered by call k of the step, and the hub it stores
StoresHubThenEnumerates(k) ==
  /\ pending[k].at = "generateAuthKey"
  /\ pending'[k].at = "getLights"
  /\ cfgHub' = [name |-> selectedHub.name, ip |-> selectedHub.ip,
                username |-> DeviceAt(getHubUrl(pending[k].arg)).username,
                bridgeId |-> selectedHub.id]

C17_Step ==
  /\ (setupOp'.op = "generateAuthKey" /\ setupOp'.outcome = "success") =>
       /\ \E k \in 1..Len(pending) : StoresHubThenEnumerates(k)
       /\ cfgLights' = cfgLights
  /\ (cfgLights' \ cfgLights # {}) =>
       (setupOp'.op = "getLights" /\ setupOp'.outcome = "success")

\* C17: when the hub issues a key, name, address, username and id of the
\* selected hub are in the registry when the getLights request is in flight;
\* that step adds no light (a registry without lights still has none), and
\* lights enter the registry only when getLights has returned.
C17_HubStoredBeforeEnumeration == [][C17_Step]_vars

C17_Witness ==
  /\ setupOp.op = "generateAuthKey"
  /\ setupOp.outcome = "success"
  /\ cfgHub = [name |-> "Bridge", ip |-> "10.0.0.5", username |-> "abc",
               bridgeId |-> "001788aaaaaa"]
  /\ cfgLights = {}
  /\ Len(pending) = 1
  /\ pending[1].at = "getLights"

C18_Step ==
  (setupOp'.op = "UserConfirmationResponse" /\ selectedHub = NoSelection) =>
    /\ setupAnswer'.type = "SetupError"
    /\ ~setupOp'.credentialRequest
    /\ UNCHANGED <<cfgHub, cfgLights>>

\* C18: a user confirmation handled while no hub is selected is answered
\* with a setup error, sends no credential request and leaves the registry
\* as it was.
C18_ConfirmWithoutHubFails == [][C18_Step]_vars

C19_Step ==
  (setupOp'.op = "handleUserDataResponse") =>
    LET hubId == setupOp'.values.hubId
        known == \E i \in 1..Len(hubs) : Present(hubs[i].id) = hubId
    IN
    /\ Missing(hubId) => setupAnswer' = SetupError("No hub selected")
    /\ (~Missing(hubId) /\ ~known) => setupAnswer' = SetupError("Hub not found")
    /\ (Missing(hubId) \/ ~known) =>
         /\ setupStep = "DEVICE_CHOICE"
         /\ setupStep' = "DEVICE_CHOICE"
         /\ UNCHANGED <<selectedHub, hubs, cfgHub, cfgLights>>

\* C19: in step DEVICE_CHOICE a UserDataResponse without hubId is answered
\* with "No hub selected", one whose hubId matches no candidate with "Hub not
\* found"; step, selected hub, candidate list and registry stay as they were.
C19_InvalidSelectionFails == [][C19_Step]_vars

C19_Witness ==
  /\ setupOp.op = "handleUserDataResponse"
  /\ setupOp.values.hubId = Present("no-such-hub")
  /\ setupAnswer = SetupError("Hub not found")
  /\ Len(hubs) = 2
  /\ selectedHub # NoSelection

\* C20: from the handling of AbortDriverSetup until the next
\* DriverSetupRequest the step is INIT and the candidate list is empty,
\* whatever a discovery started earlier does when it completes.
C20_AbortDiscardsDiscovery ==
  aborted => (setupStep = "INIT" /\ hubs = <<>>)

\* the candidates of hs that pass the verification of handleHubDiscovery
Surviving(hs) == SelectSeq(hs, verifyHub)

C21_Step ==
  /\ (setupOp'.op = "handleHubDiscovery" /\ Len(Surviving(hubs')) = 0) =>
       /\ setupAnswer'.type = "RequestUserConfirmation"
       /\ setupStep' = "DISCOVER"
  /\ (setupOp'.op = "UserConfirmationResponse" /\ setupStep = "DISCOVER") =>
       /\ setupStep' = "DISCOVER"
       /\ \E k \in 1..Len(pending') : pending'[k].at = "delay"

\* C21: when discovery, by mDNS or by a manual address, ends with no
\* candidate that survived, handleHubDiscovery answers with a retry/abort
\* confirmation request and not with a setup error, the step stays DISCOVER,
\* and a user confirmation that follows runs discovery again.
C21_ZeroCandidatesAsksRetry == [][C21_Step]_vars

C22_Step ==
  (setupOp'.op = "handleConfigurationMode" /\ setupOp'.outcome = "info") =>
    /\ cfgHub' = cfgHub
    /\ cfgLights' = cfgLights

\* C22: the configuration-mode action `info` leaves the registry, the hub
\* block and every light entry, as it was, whether the probes of the hub
\* succeed or fail.
C22_InfoLeavesRegistry == [][C22_Step]_vars

\* `info` ran on a paired registry with lights, its first probe succeeded and
\* its second failed
C22_Witness ==
  /\ setupOp.op = "handleConfigurationMode"
  /\ setupOp.outcome = "info"
  /\ setupAnswer.items = <<"json", "Error">>
  /\ cfgLights # {}

C23_Step ==
  (/\ setupOp'.op = "handleConfigurationMode"
   /\ setupOp'.outcome \in {"remove", "reset"}) =>
    /\ cfgHub' = NoHub
    /\ cfgLights' = {}

\* C23: after the configuration-mode action `remove` (Config.removeHub) or
\* `reset` (Config.clear) the registry holds no hub and no lights, whatever
\* it held before; `reset` does so when no hub was stored, too.
C23_RemoveAndResetEmptyRegistry == [][C23_Step]_vars

\* `remove` has just emptied a registry that held a hub: the registry
\* announced the removal
C23_Witness ==
  /\ setupOp.op = "handleConfigurationMode"
  /\ setupOp.outcome = "remove"
  /\ lastOp = "remove"
  /\ cfgHub = NoHub
  /\ cfgLights = {}

----------------------------------------------------------------------------
(* Claims about HueEventStream and its use by the engine, checked under
   SpecEngine *)

\* a handler that calls eventStream.connect and nothing else of the client
CallsConnectOnly ==
  \/ handleExitStandby
  \/ \E S \in SUBSET Lights : handleSubscribeEntities(S)
  \/ \E cause \in {"error", "disconnect"} : ReconnectTimer(cause)

C24_Step ==
  (connected /\ HasHub(cfgHub) /\ HasHub(capturedHub) /\ didConnect'
     /\ CallsConnectOnly) =>
    /\ es' = es
    /\ orphans' = orphans
    /\ connected'
    /\ ~signal'.fired

\* C24: HueEventStream.connect called while the client is connected changes
\* nothing: no connection is created, no signal is emitted, and the
\* connection that exists stays open.
C24_ConnectWhileConnectedIsNoOp == [][C24_Step]_vars

\* the reconnect delay of an error elapsed after the client had become
\* connected again, and the handler called connect
C24_Witness ==
  /\ lastOp = "ReconnectAfterError"
  /\ didConnect
  /\ connected
  /\ es.status = "open"

\* the client after the step
StreamAfter == [es |-> es', orphans |-> orphans', connected |-> connected']

\* the step is es.onerror of one of the client's EventSources
IsTransportError == timers'.error = timers.error + 1

C25_Step ==
  IsTransportError =>
    /\ ~connected'
    /\ signal'.fired
    /\ NumLive(StreamAfter) < NumLive(Stream)

\* C25: on every transport error of the event stream the client becomes
\* not-connected and emits `disconnected` once, and the client itself starts
\* no connection afterwards: the connection that failed is neither open nor
\* being opened again, a later connection exists only by a call of connect.
C25_NoSelfReconnect == [][C25_Step]_vars

C26_Step ==
  lastOp' \in {"disconnect", "remove"} => signal'.fired

\* C26: every call of HueEventStream.disconnect() emits `disconnected`, in
\* every state of the client: connected, disconnected already, and never
\* connected.
C26_DisconnectAlwaysEmits == [][C26_Step]_vars

C27_Step ==
  /\ (lastOp' = "ReconnectAfterError" /\ "error" \in overtaken /\ ~hostWants)
       => ~didConnect'
  /\ (lastOp' = "ReconnectAfterDisconnect" /\ "disconnect" \in overtaken /\ ~hostWants)
       => ~didConnect'

\* C27: when an explicit disconnect (host disconnect, enter-standby,
\* unsubscribe) arrives during the 2 s delay that follows a `disconnected`
\* signal, and the host has not asked for the stream again, the pending
\* reconnect is cancelled: no connect call is made when the delay elapses.
C27_DisconnectCancelsPendingReconnect == [][C27_Step]_vars

\* the step is es.onmessage with a body that is not valid JSON
IsMalformedMessage ==
  /\ lastOp' \in {"other", "uncaughtException"}
  /\ \E target \in {"es", "orphan"}, caught \in BOOLEAN : EsMalformed(target, caught)

C28_Step ==
  IsMalformedMessage =>
    /\ lastOp' # "uncaughtException"
    /\ connected' = connected
    /\ es' = es
    /\ orphans' = orphans
    /\ configured' = configured

\* C28: an event-stream message whose body is not valid JSON ends neither the
\* stream nor the process: the client stays connected with the sources it
\* had and the engine keeps its entities, so that a well-formed message
\* received afterwards is delivered as `update`.
C28_MalformedMessageIsSwallowed == [][C28_Step]_vars

----------------------------------------------------------------------------
(* Claims about the unit converters, checked under SpecConv *)

\* an attribute that is a plain number lies in lo..hi when it is there
NumberWithin(attr, lo, hi) ==
  attr = Absent \/ (attr[1] >= lo /\ attr[1] <= hi)

\* an attribute that may be NaN is a number in lo..hi when it is there
ValueWithin(attr, lo, hi) ==
  attr = Absent \/ (~attr[1].nan /\ attr[1].n >= lo /\ attr[1].n <= hi)

\* an attribute kept as a fraction lies in lo..hi when it is there
FractionWithin(attr, lo, hi) ==
  attr = Absent \/ (attr[1].num >= lo * attr[1].den /\ attr[1].num <= hi * attr[1].den)

\* C29: every attribute set the engine publishes for a light has brightness
\* in 1..100, hue in 0..359, saturation in 0..100 and color temperature in
\* 0..100, for every value the hub may report, values outside the hub's
\* native ranges (dimming above 100, mirek outside 153..500) included.
C29_PublishedAttributesInRange ==
  convOut.attrs # Absent =>
    LET attrs == convOut.attrs[1] IN
    /\ NumberWithin(attrs.brightness, 1, 100)
    /\ ValueWithin(attrs.hue, 0, 359)
    /\ ValueWithin(attrs.saturation, 0, 100)
    /\ FractionWithin(attrs.color_temperature, 0, 100)

\* C30: colorTempToMirek(mirekToColorTemp(m)) = m for every integer m in
\* 153..500.
C30_MirekRoundTrip ==
  (convIn.kind = "mirek" /\ convOut.mirek # Absent) => convOut.mirek[1] = convIn.mirek

\* the round trip was made for a mirek value whose color temperature is no
\* whole percent
C30_Witness ==
  /\ convIn.kind = "mirek"
  /\ convIn.mirek = 366
  /\ convOut.colorTemp = Present(mirekToColorTemp(366))
  /\ convOut.mirek = Present(366)

\* C31: brightnessToPercent(b) >= 1 for every b in 0..255 and
\* percentToBrightness(p) >= 1 for every p in 0..100: neither function
\* returns 0.
C31_ConvertersFloorAtOne ==
  (convIn.kind \in {"brightness", "percent"} /\ convOut.number # Absent)
    => convOut.number[1] >= 1

\* brightnessToPercent was applied to 0, which rounds to 0 percent
C31_Witness ==
  /\ convIn.kind = "brightness"
  /\ convIn.number = 0
  /\ convOut.number = Present(1)

\* C32: normalizeBridgeId returns the same 12-character lower-case id for the
\* three forms of one identifier (with colons, with `fffe` in the middle,
\* canonical) in any letter case, and applied to its own result it returns
\* that result.
C32_BridgeIdForms ==
  /\ (convIn.kind = "bridgeId" /\ convOut.text # Absent) =>
       \A id \in BridgeIds : convIn.text \in FormsOf(id) => convOut.text[1] = id
  /\ convOut.again # Absent => convOut.again = convOut.text

\* the form with colons in upper case was normalized twice
C32_Witness ==
  /\ convIn.text = <<"E", "C", ":", "B", "5", ":", "F", "A", ":", "0", "B", ":",
                     "1", "C", ":", "2", "D">>
  /\ convOut.text = Present(<<"e", "c", "b", "5", "f", "a", "0", "b", "1", "c", "2", "d">>)
  /\ convOut.again = convOut.text


----------------------------------------------------------------------------
(* C33 *)

\* the response that ended the probe's sendRequest call
ProbeLast == rqResponses[Len(rqResponses)]

\* C33: is_v2_bridge returns true exactly when its probe was rejected with
\* HTTP 403; it returns false when the probe succeeded, was rejected with any
\* other status (401 included), got no response, or when there is no base
\* address, and in every case it returns an answer instead of throwing.
C33_V2ExactlyOn403 ==
  /\ v2Bridge.answer \in BOOLEAN
  /\ v2Bridge.pc = "probing" => rqPc = "loop"
  /\ v2Bridge.pc = "returned" =>
       /\ Falsy(hubUrl) => ~v2Bridge.answer /\ rqSent = 0
       /\ ~Falsy(hubUrl) =>
            /\ rqPc = "done"
            /\ Len(rqResponses) > 0
            /\ v2Bridge.answer <=> (ProbeLast.t = "status" /\ ProbeLast.status = 403)

\* a probe answered 403 after one rate-limited attempt
C33_Witness ==
  /\ v2Bridge = [pc |-> "returned", answer |-> TRUE]
  /\ Len(rqResponses) = 2
  /\ rqResponses[1].status = 429
  /\ rqResponses[2].status = 403


----------------------------------------------------------------------------
(* C34 *)

\* a handler that called eventStream.connect leaves a source for the hub the
\* registry holds after the handler
C34_Step ==
  didConnect' =>
    /\ HasHub(cfgHub')
    /\ es'.url = getHubUrl(cfgHub'.ip)
    /\ es'.key = cfgHub'.username

\* C34: every connect the engine issues (subscribe, exit-standby, configuration
\* change, the reconnect after `disconnected`) uses the address and key the
\* registry holds at that moment; none uses an earlier hub after re-pairing,
\* and none is issued after the hub was removed.
C34_ConnectUsesStoredHub == [][C34_Step]_vars


----------------------------------------------------------------------------
(* C35 *)

\* C35: under any interleaving of pairing, remove and reset with the
\* updateLights refresh, a registry without a hub holds no lights: a refresh
\* that was in flight when the hub was removed writes no light back.
C35_NoLightsWithoutHub == cfgHub = NoHub => cfgLights = {}


----------------------------------------------------------------------------
(* C36 *)

\* a stored capability set stays as it is
C36_Step ==
  \A id \in EntityIds : regFeatures[id] # Absent => regFeatures'[id] = regFeatures[id]

\* C36: once the capability set of a light is stored in the registry, no
\* later operation (a refresh after a host connect or a reconnect, an
\* event-stream update) changes it, whatever the hub reports afterwards.
C36_FeaturesImmutable == [][C36_Step]_vars


----------------------------------------------------------------------------
(* C37 *)

\* the confirmation step has just succeeded: getLights answered and the
\* handler returned SetupComplete
ConfirmationSucceeded(op, answer) ==
  op.op = "getLights" /\ op.outcome = "success" /\ answer = SetupComplete

\* the success leaves PRESS_THE_BUTTON, and the step after it sends no
\* credential-creation request unless it is a new DriverSetupRequest
C37_Step ==
  /\ ConfirmationSucceeded(setupOp', setupAnswer') => setupStep' # "PRESS_THE_BUTTON"
  /\ ConfirmationSucceeded(setupOp, setupAnswer) => ~setupOp'.credentialRequest

\* C37: when the confirmation step succeeds the setup state leaves
\* PRESS_THE_BUTTON, so a further UserConfirmationResponse without a new
\* DriverSetupRequest sends no second credential-creation request.
C37_SuccessLeavesButtonStep == [][C37_Step]_vars


----------------------------------------------------------------------------
(* Claims about PhilipsHue.handleLightCmd, checked under SpecCmd *)

\* C38: handleLightCmd returns Ok only when the hub request it sent completed
\* without error; when the request failed with a HueError it returns that
\* error's status code; for a command other than on, off or toggle it returns
\* BadRequest without sending a request.
C38_StatusFollowsRequest ==
  cmdRun.pc = "done" =>
    /\ cmdRun.status = Present("Ok") =>
         cmdRun.sent # Absent /\ cmdRun.answer # Absent /\ cmdRun.answer[1].kind = "ok"
    /\ (cmdRun.answer # Absent /\ cmdRun.answer[1].kind = "error") =>
         cmdRun.status = Present(cmdRun.answer[1].status)
    /\ cmdIn.command \notin {"on", "off", "toggle"} =>
         cmdRun.status = Present("BadRequest") /\ cmdRun.sent = Absent

\* an `off` command whose request the hub rejected as unauthorized
C38_Witness ==
  /\ cmdIn.command = "off"
  /\ cmdRun.pc = "done"
  /\ cmdRun.sent = Present(setOn(FALSE))
  /\ cmdRun.answer # Absent
  /\ cmdRun.answer[1].kind = "error"
  /\ cmdRun.status = Present("Unauthorized")

----------------------------------------------------------------------------
(* C39 *)

\* C39: an `on` command sends a request with on=true for every parameter
\* combination except brightness 0, also without a brightness parameter and
\* without any parameter; with brightness 0 it sends on=false and no dimming.
C39_OnSwitchesOn ==
  (cmdIn.command = "on" /\ cmdRun.sent # Absent) =>
    IF cmdIn.params.brightness = Present(0)
    THEN cmdRun.sent[1].on = "false" /\ cmdRun.sent[1].dimming = Absent
    ELSE cmdRun.sent[1].on = "true"


----------------------------------------------------------------------------
(* C40 *)

\* the step handled a DriverSetupRequest
HandledDriverSetupRequest(op) == op.op \in {"DriverSetupRequest", "handleDriverSetup"}

\* a handled DriverSetupRequest starts a new flow
C40_Step ==
  HandledDriverSetupRequest(setupOp') =>
    /\ setupAnswer' # SetupComplete
    /\ \/ setupStep' = "CONFIGURATION_MODE"
       \/ /\ setupStep' = "DISCOVER"
          /\ cfgHub' = NoHub
          /\ cfgLights' = {}
          /\ \E k \in 1..Len(pending') : pending'[k].at \in {"delay", "getHubConfig"}

\* C40: a DriverSetupRequest handled in any setup step, COMPLETED (after an
\* `info` screen) and PRESS_THE_BUTTON included, starts a new flow: the
\* registry is cleared and discovery runs (reconfigure=false) or the step
\* becomes CONFIGURATION_MODE (reconfigure=true); it is never answered with
\* SetupComplete.
C40_SetupRequestStartsFlow == [][C40_Step]_vars

============================================================================
